---- MODULE Spec2Model ----
(***************************************************************************)
(* The rules engine of src/App.tsx: the GameState kept by the App          *)
(* component, the three interaction states next to it, and the handlers    *)
(* that replace them (executeMove, handleRentCollection, initiateForceDeal,*)
(* initiateSlyDeal, resolvePendingAction, startTurn, endTurn, the CANCEL   *)
(* ACTION buttons).  Every handler is a function of the state it reads;    *)
(* the actions apply those functions, and the properties below evaluate    *)
(* the same functions in every reachable state.                            *)
(*                                                                         *)
(* Cards are numbered; CardTable gives each number the fields of the Card  *)
(* it stands for.  Array indices stored by the program (mySetIndex,        *)
(* targetSetIndex, activePlayerIndex, attackerIndex) stay 0-based as in    *)
(* the source; sequences are indexed from 1, so a[i] of the source is      *)
(* a[i + 1] here.  null / undefined are NoCard (0) for a card, NoIndex     *)
(* (-1) for an index or a winner, and NoPending for pendingAction.         *)
(***************************************************************************)
EXTENDS Integers, Sequences, FiniteSets, TLC

VARIABLES gameState, pendingRentCard, pendingForceDeal, pendingSlyDeal,
          aiProcessing, aiLoop, aiLoops

\* The automated player's decision loop (the AI Logic Loop effect and its
\* runAI): aiProcessing is aiProcessingRef.current, which isProcessing follows;
\* aiLoop is where the runAI in progress stands and how many proposed moves it
\* has yet to read; aiLoops counts the runAI calls that have not finished.
aiVars == <<aiProcessing, aiLoop, aiLoops>>

vars == <<gameState, pendingRentCard, pendingForceDeal, pendingSlyDeal,
          aiProcessing, aiLoop, aiLoops>>

\* ------------------------------------------------------------------ bounds

\* The log is append-only and unbounded in the program; handlers that would
\* write to a log of this length are not taken.
MaxLogs == 6

\* Set indices offered to the target selections range over 0..MaxSetIndex
\* (they may name a set that does not exist).
MaxSetIndex == 3

\* Amounts tried when processPayment is evaluated on its own.
MaxAmount == 8

\* ------------------------------------------------------------------ constants

NoCard == 0
NoIndex == 0 - 1

\* types.ts SET_LIMITS
SET_LIMITS(color) ==
  CASE color = "BROWN" -> 2
    [] color = "LIGHT_BLUE" -> 3
    [] color = "PINK" -> 3
    [] color = "ORANGE" -> 3
    [] color = "RED" -> 3
    [] color = "YELLOW" -> 3
    [] color = "GREEN" -> 3
    [] color = "DARK_BLUE" -> 2
    [] color = "RAILROAD" -> 4
    [] color = "UTILITY" -> 2
    [] color = "ANY" -> 999

\* types.ts RENT_VALUES
RENT_VALUES(color) ==
  CASE color = "BROWN" -> <<1, 2>>
    [] color = "LIGHT_BLUE" -> <<1, 2, 3>>
    [] color = "PINK" -> <<1, 2, 4>>
    [] color = "ORANGE" -> <<1, 3, 5>>
    [] color = "RED" -> <<2, 3, 6>>
    [] color = "YELLOW" -> <<2, 4, 6>>
    [] color = "GREEN" -> <<2, 4, 7>>
    [] color = "DARK_BLUE" -> <<3, 8>>
    [] color = "RAILROAD" -> <<1, 2, 3, 4>>
    [] color = "UTILITY" -> <<1, 2>>
    [] color = "ANY" -> <<0>>

\* constants.tsx createCard; an absent color is "NONE"
createCard(name, type, value, color, secondaryColor) ==
  [name |-> name, type |-> type, value |-> value, color |-> color,
   secondaryColor |-> secondaryColor]

\* A selection of constants.tsx INITIAL_DECK: card n is CardTable[n].
CardTable ==
  << createCard("1M", "MONEY", 1, "NONE", "NONE"),
     createCard("2M", "MONEY", 2, "NONE", "NONE"),
     createCard("5M", "MONEY", 5, "NONE", "NONE"),
     createCard("Deal Breaker", "ACTION", 7, "NONE", "NONE"),
     createCard("Sly Deal", "ACTION", 3, "NONE", "NONE"),
     createCard("Force Deal", "ACTION", 3, "NONE", "NONE"),
     createCard("Just Say No", "ACTION", 4, "NONE", "NONE"),
     createCard("Just Say No", "ACTION", 4, "NONE", "NONE"),
     createCard("Debt Collector", "ACTION", 3, "NONE", "NONE"),
     createCard("It's My Birthday", "ACTION", 2, "NONE", "NONE"),
     createCard("Pass Go", "ACTION", 1, "NONE", "NONE"),
     createCard("Rent (Brown/L.Blue)", "RENT", 1, "BROWN", "LIGHT_BLUE"),
     createCard("Old Kent Road", "PROPERTY", 1, "BROWN", "NONE"),
     createCard("Old Kent Road", "PROPERTY", 1, "BROWN", "NONE"),
     createCard("Park Lane", "PROPERTY", 4, "DARK_BLUE", "NONE"),
     createCard("Park Lane", "PROPERTY", 4, "DARK_BLUE", "NONE"),
     createCard("Water Works", "PROPERTY", 2, "UTILITY", "NONE"),
     createCard("Water Works", "PROPERTY", 2, "UTILITY", "NONE"),
     createCard("The Angel Islington", "PROPERTY", 1, "LIGHT_BLUE", "NONE"),
     createCard("Dark Blue/Green Wild", "WILD", 4, "DARK_BLUE", "GREEN"),
     createCard("Light Blue/Brown Wild", "WILD", 1, "LIGHT_BLUE", "BROWN"),
     createCard("Just Say No", "ACTION", 4, "NONE", "NONE") >>

INITIAL_DECK == 1..Len(CardTable)

NoPending ==
  [type |-> "NONE", card |-> NoCard, attackerIndex |-> 0,
   mySetIndex |-> NoIndex, targetSetIndex |-> NoIndex, jsnStack |-> 0]

NoForceDeal == [card |-> NoCard, mySetIndex |-> NoIndex]

\* One line of GameState.logs: the kind of the message and what it names
\* (p a player index, c and d card numbers, an amount or a count).
Log(k, p, c, d) == [k |-> k, p |-> p, c |-> c, d |-> d]

\* ------------------------------------------------------------------ arrays

\* array.unshift(x)
Unshift(s, x) == <<x>> \o s

\* array.splice(i, 1) on a 1-based position
RemoveAt(s, i) == SubSeq(s, 1, i - 1) \o SubSeq(s, i + 1, Len(s))

\* array.splice(0, n): the removed front and what is left
Front(s, n) == SubSeq(s, 1, IF n < Len(s) THEN n ELSE Len(s))
Rest(s, n) == SubSeq(s, (IF n < Len(s) THEN n ELSE Len(s)) + 1, Len(s))

\* array.findIndex(test) as a 1-based position, 0 when nothing matches
FindIndex(s, Test(_)) ==
  IF \E i \in 1..Len(s) : Test(s[i])
  THEN CHOOSE i \in 1..Len(s) : Test(s[i]) /\ \A j \in 1..(i - 1) : ~Test(s[j])
  ELSE 0

RECURSIVE SumValues(_)
SumValues(s) ==
  IF s = <<>> THEN 0 ELSE CardTable[Head(s)].value + SumValues(Tail(s))

\* bank.sort((a, b) => a.value - b.value): stable, ascending by value
RECURSIVE InsertByValue(_, _)
InsertByValue(sorted, c) ==
  IF sorted = <<>> THEN <<c>>
  ELSE IF CardTable[Head(sorted)].value <= CardTable[c].value
       THEN <<Head(sorted)>> \o InsertByValue(Tail(sorted), c)
       ELSE <<c>> \o sorted

\* SortByValue leaving the bank in the order the cards were banked
SortByValue_Unsorted(s) == s

RECURSIVE SortByValue(_)
SortByValue(s) ==
  IF s = <<>> THEN <<>>
  ELSE InsertByValue(SortByValue(SubSeq(s, 1, Len(s) - 1)), s[Len(s)])

\* ------------------------------------------------------------------ sets

Opponent(i) == 1 - i

\* card.color || 'ANY'
ColorOrAny(c) == IF CardTable[c].color = "NONE" THEN "ANY" ELSE CardTable[c].color

\* player.properties.filter(p => p.isComplete).length
RECURSIVE FullSets(_)
FullSets(properties) ==
  IF properties = <<>> THEN 0
  ELSE (IF Head(properties).isComplete THEN 1 ELSE 0) + FullSets(Tail(properties))

\* PopTop without the splice of an emptied set
PopTop_KeepEmpty(properties, i) ==
  [properties EXCEPT ![i] = [@ EXCEPT !.cards = SubSeq(@, 1, Len(@) - 1),
                                      !.isComplete = FALSE]]

\* set.cards.pop() on the set at 1-based position i, then the statements that
\* follow every pop in the source (processPayment 189-195, and the same at
\* 292-300 and 327-329): an emptied set is spliced out, any other set is
\* marked incomplete.
PopTop(properties, i) ==
  LET set == properties[i]
      left == SubSeq(set.cards, 1, Len(set.cards) - 1)
  IN  IF Len(left) = 0
      THEN RemoveAt(properties, i)
      ELSE [properties EXCEPT ![i] = [set EXCEPT !.cards = left, !.isComplete = FALSE]]

\* TopCard taking the oldest card of the set
TopCard_Oldest(properties, i) == properties[i].cards[1]

TopCard(properties, i) == properties[i].cards[Len(properties[i].cards)]

\* target.cards.push(c); target.isComplete = target.cards.length >= SET_LIMITS[target.color]
\* on the set at position i, a new set of `color` being pushed first when i = 0.
PushCard(properties, i, c, color) ==
  LET withSet == IF i = 0
                 THEN Append(properties, [color |-> color, cards |-> <<>>, isComplete |-> FALSE])
                 ELSE properties
      k == IF i = 0 THEN Len(withSet) ELSE i
      cards == Append(withSet[k].cards, c)
  IN  [withSet EXCEPT ![k] = [withSet[k] EXCEPT
                                !.cards = cards,
                                !.isComplete = Len(cards) >= SET_LIMITS(withSet[k].color)]]

\* properties.find(p => p.color === color), as a position
FindColor(properties, color) ==
  LET Test(p) == p.color = color IN FindIndex(properties, Test)

\* properties.find(p => p.color === color && !p.isComplete), as a position
FindIncomplete(properties, color) ==
  LET Test(p) == p.color = color /\ ~p.isComplete IN FindIndex(properties, Test)

\* processPayment 197-204: the surrendered card joins the creditor's set of its
\* color, whatever its state.
PaymentPlace(properties, c) ==
  PushCard(properties, FindColor(properties, ColorOrAny(c)), c, ColorOrAny(c))

\* resolvePendingAction 303-314 (Force Deal)
placeCard(properties, c) ==
  LET targetColor == ColorOrAny(c)
      first == FindIncomplete(properties, targetColor)
      second == IF first = 0 /\ CardTable[c].secondaryColor # "NONE"
                THEN FindIncomplete(properties, CardTable[c].secondaryColor)
                ELSE first
      third == IF second = 0 THEN FindColor(properties, targetColor) ELSE second
  IN  PushCard(properties, third, c, targetColor)

\* resolvePendingAction 332-340 (Sly Deal): no fallback to a complete set
SlyPlace(properties, c) ==
  LET targetColor == ColorOrAny(c)
      first == FindIncomplete(properties, targetColor)
      second == IF first = 0 /\ CardTable[c].secondaryColor # "NONE"
                THEN FindIncomplete(properties, CardTable[c].secondaryColor)
                ELSE first
  IN  PushCard(properties, second, c, targetColor)

\* ------------------------------------------------------------------ settlement

\* PayFromBank without the note on overpayment
RECURSIVE PayFromBank_NoNote(_, _, _)
PayFromBank_NoNote(st, from, to) ==
  IF st.remaining > 0 /\ Len(st.players[from].bank) > 0
  THEN LET card == Head(st.players[from].bank)
       IN  PayFromBank_NoNote(
             [players |-> [st.players EXCEPT ![from].bank = Tail(@),
                                             ![to].bank = Append(@, card)],
              remaining |-> st.remaining - CardTable[card].value,
              logs |-> Unshift(st.logs, Log("paid", from, card, 0))],
             from, to)
  ELSE st

\* processPayment 174-182: the loop over the sorted bank.  st = [players,
\* remaining, logs]; from pays to.
RECURSIVE PayFromBank(_, _, _)
PayFromBank(st, from, to) ==
  IF st.remaining > 0 /\ Len(st.players[from].bank) > 0
  THEN LET card == Head(st.players[from].bank)
           remaining == st.remaining - CardTable[card].value
           paid == Unshift(st.logs, Log("paid", from, card, 0))
       IN  PayFromBank(
             [players |-> [st.players EXCEPT ![from].bank = Tail(@),
                                             ![to].bank = Append(@, card)],
              remaining |-> remaining,
              logs |-> IF remaining < 0
                       THEN Unshift(paid, Log("nochange", from, 0, 0))
                       ELSE paid],
             from, to)
  ELSE st

\* PayFromProperties never entered: the debt stops at the bank
PayFromProperties_BankOnly(st, from, to) == st

\* processPayment 185-208: the loop over the property sets.
RECURSIVE PayFromProperties(_, _, _)
PayFromProperties(st, from, to) ==
  LET NonEmpty(p) == Len(p.cards) > 0
      setIdx == FindIndex(st.players[from].properties, NonEmpty)
  IN  IF st.remaining > 0 /\ Len(st.players[from].properties) > 0 /\ setIdx # 0
      THEN LET card == TopCard(st.players[from].properties, setIdx)
           IN  PayFromProperties(
                 [players |-> [st.players EXCEPT
                                 ![from].properties = PopTop(@, setIdx),
                                 ![to].properties = PaymentPlace(@, card)],
                  remaining |-> st.remaining - CardTable[card].value,
                  logs |-> Unshift(st.logs, Log("surrendered", from, card, 0))],
                 from, to)
      ELSE st

\* processPayment(fromPlayer, toPlayer, amount, log): the players and the log
\* it leaves, with the debt it could not collect.
processPayment(players, from, to, amount, logs) ==
  LET sorted == [players EXCEPT ![from].bank = SortByValue(@)]
      start == [players |-> sorted, remaining |-> amount, logs |-> logs]
  IN  PayFromProperties(PayFromBank(start, from, to), from, to)

\* checkWinCondition naming the winner at two complete sets
checkWinCondition_TwoSets(state) ==
  IF FullSets(state.players[state.activePlayerIndex].properties) >= 2
  THEN [state EXCEPT !.winner = state.activePlayerIndex, !.phase = "GAME_OVER"]
  ELSE state

\* checkWinCondition(state)
checkWinCondition(state) ==
  IF FullSets(state.players[state.activePlayerIndex].properties) >= 3
  THEN [state EXCEPT !.winner = state.activePlayerIndex, !.phase = "GAME_OVER"]
  ELSE state

\* ------------------------------------------------------------------ contested actions

HasSet(properties, index) == index >= 0 /\ index < Len(properties)

\* Responder with the defender answering at every depth
Responder_AlwaysDefender(pa) == Opponent(pa.attackerIndex)

\* resolvePendingAction 250-251: who answers at this depth of the stack
Responder(pa) == IF pa.jsnStack % 2 = 0 THEN Opponent(pa.attackerIndex) ELSE pa.attackerIndex

\* player.hand.findIndex(c => c.name === 'Just Say No'), as a position
JsnIndex(hand) ==
  LET Test(c) == CardTable[c].name = "Just Say No" IN FindIndex(hand, Test)

\* actionBlocked with the parity the wrong way round
actionBlocked_OnEven(currentJsnStack) == currentJsnStack % 2 = 0

\* resolvePendingAction 271
actionBlocked(currentJsnStack) == currentJsnStack % 2 = 1

\* ForceDealEffect with the attacker giving nothing in return
ForceDealEffect_OneWay(state, pa) ==
  LET a == pa.attackerIndex
      o == Opponent(a)
      mine == state.players[a].properties
      theirs == state.players[o].properties
  IN  IF pa.mySetIndex # NoIndex /\ pa.targetSetIndex # NoIndex
         /\ HasSet(mine, pa.mySetIndex) /\ HasSet(theirs, pa.targetSetIndex)
         /\ Len(mine[pa.mySetIndex + 1].cards) > 0
         /\ Len(theirs[pa.targetSetIndex + 1].cards) > 0
      THEN LET myCard == TopCard(mine, pa.mySetIndex + 1)
               oppCard == TopCard(theirs, pa.targetSetIndex + 1)
           IN  [state EXCEPT
                 !.players[a].properties = placeCard(mine, oppCard),
                 !.players[o].properties = PopTop(theirs, pa.targetSetIndex + 1),
                 !.logs = Unshift(@, Log("forcedeal", a, myCard, oppCard))]
      ELSE state

\* resolvePendingAction 286-320
ForceDealEffect(state, pa) ==
  LET a == pa.attackerIndex
      o == Opponent(a)
      mine == state.players[a].properties
      theirs == state.players[o].properties
  IN  IF pa.mySetIndex # NoIndex /\ pa.targetSetIndex # NoIndex
         /\ HasSet(mine, pa.mySetIndex) /\ HasSet(theirs, pa.targetSetIndex)
         /\ Len(mine[pa.mySetIndex + 1].cards) > 0
         /\ Len(theirs[pa.targetSetIndex + 1].cards) > 0
      THEN LET myCard == TopCard(mine, pa.mySetIndex + 1)
               oppCard == TopCard(theirs, pa.targetSetIndex + 1)
           IN  [state EXCEPT
                 !.players[a].properties =
                    placeCard(PopTop(mine, pa.mySetIndex + 1), oppCard),
                 !.players[o].properties =
                    placeCard(PopTop(theirs, pa.targetSetIndex + 1), myCard),
                 !.logs = Unshift(@, Log("forcedeal", a, myCard, oppCard))]
      ELSE state

\* SlyDealEffect without the test of isComplete
SlyDealEffect_FromComplete(state, pa) ==
  LET a == pa.attackerIndex
      o == Opponent(a)
      theirs == state.players[o].properties
  IN  IF pa.targetSetIndex = NoIndex THEN state
      ELSE IF HasSet(theirs, pa.targetSetIndex)
              /\ Len(theirs[pa.targetSetIndex + 1].cards) > 0
      THEN LET stolen == TopCard(theirs, pa.targetSetIndex + 1)
           IN  [state EXCEPT
                 !.players[o].properties = PopTop(theirs, pa.targetSetIndex + 1),
                 !.players[a].properties = SlyPlace(@, stolen),
                 !.logs = Unshift(@, Log("stole", a, stolen, 0))]
      ELSE [state EXCEPT !.logs = Unshift(@, Log("slyinvalid", a, 0, 0))]

\* resolvePendingAction 321-345
SlyDealEffect(state, pa) ==
  LET a == pa.attackerIndex
      o == Opponent(a)
      theirs == state.players[o].properties
  IN  IF pa.targetSetIndex = NoIndex THEN state
      ELSE IF HasSet(theirs, pa.targetSetIndex)
              /\ ~theirs[pa.targetSetIndex + 1].isComplete
              /\ Len(theirs[pa.targetSetIndex + 1].cards) > 0
      THEN LET stolen == TopCard(theirs, pa.targetSetIndex + 1)
           IN  [state EXCEPT
                 !.players[o].properties = PopTop(theirs, pa.targetSetIndex + 1),
                 !.players[a].properties = SlyPlace(@, stolen),
                 !.logs = Unshift(@, Log("stole", a, stolen, 0))]
      ELSE [state EXCEPT !.logs = Unshift(@, Log("slyinvalid", a, 0, 0))]

\* DealBreakerEffect taking the opponent's first set, complete or not
DealBreakerEffect_AnySet(state, pa) ==
  LET a == pa.attackerIndex
      o == Opponent(a)
  IN  IF Len(state.players[o].properties) > 0
      THEN [state EXCEPT
             !.players[o].properties = RemoveAt(@, 1),
             !.players[a].properties = Append(@, state.players[o].properties[1]),
             !.logs = Unshift(@, Log("dealbreaker", a,
                                     Head(state.players[o].properties[1].cards), 0))]
      ELSE state

\* resolvePendingAction 346-354
DealBreakerEffect(state, pa) ==
  LET a == pa.attackerIndex
      o == Opponent(a)
      Complete(p) == p.isComplete
      target == FindIndex(state.players[o].properties, Complete)
  IN  IF target # 0
      THEN [state EXCEPT
             !.players[o].properties = RemoveAt(@, target),
             !.players[a].properties = Append(@, state.players[o].properties[target]),
             !.logs = Unshift(@, Log("dealbreaker", a,
                                     Head(state.players[o].properties[target].cards), 0))]
      ELSE state

\* SettleEffect with the player to move as creditor
SettleEffect_ActiveCollects(state, pa, kind, amount) ==
  LET a == state.activePlayerIndex
      o == Opponent(a)
      paid == processPayment(state.players, o, a, amount,
                             Unshift(state.logs, Log(kind, a, amount, 0)))
  IN  [state EXCEPT !.players = paid.players, !.logs = paid.logs]

\* resolvePendingAction 355-361
SettleEffect(state, pa, kind, amount) ==
  LET a == pa.attackerIndex
      o == Opponent(a)
      paid == processPayment(state.players, o, a, amount,
                             Unshift(state.logs, Log(kind, a, amount, 0)))
  IN  [state EXCEPT !.players = paid.players, !.logs = paid.logs]

\* resolvePendingAction 286-361: the effect of the pending action by type
Effect(state, pa) ==
  CASE pa.type = "FORCE_DEAL" -> ForceDealEffect(state, pa)
    [] pa.type = "SLY_DEAL" -> SlyDealEffect(state, pa)
    [] pa.type = "DEAL_BREAKER" -> DealBreakerEffect(state, pa)
    [] pa.type = "DEBT_COLLECTOR" -> SettleEffect(state, pa, "debtcollector", 5)
    [] pa.type = "BIRTHDAY" -> SettleEffect(state, pa, "birthday", 2)
    [] OTHER -> state

\* PlayJsn counting the answer without taking the card from the hand
PlayJsn_CardKept(state, pa) ==
  [state EXCEPT
    !.pendingAction.jsnStack = pa.jsnStack + 1,
    !.logs = Unshift(@, Log("jsn", Responder(pa), pa.jsnStack + 1, 0))]

\* resolvePendingAction 254-267: the responder plays a Just Say No
PlayJsn(state, pa) ==
  LET r == Responder(pa)
      jsnIndex == JsnIndex(state.players[r].hand)
  IN  [state EXCEPT
        !.players[r].hand = RemoveAt(@, jsnIndex),
        !.discardPile = Append(@, state.players[r].hand[jsnIndex]),
        !.pendingAction.jsnStack = pa.jsnStack + 1,
        !.logs = Unshift(@, Log("jsn", r, pa.jsnStack + 1, 0))]

\* Blocked without the decrement of actionsRemaining
Blocked_ActionKept(state, pa) ==
  [state EXCEPT
    !.logs = Unshift(@, Log("blocked", pa.attackerIndex, pa.card, 0)),
    !.discardPile = Append(@, pa.card),
    !.pendingAction = NoPending]

\* resolvePendingAction 273-280
Blocked(state, pa) ==
  [state EXCEPT
    !.logs = Unshift(@, Log("blocked", pa.attackerIndex, pa.card, 0)),
    !.discardPile = Append(@, pa.card),
    !.pendingAction = NoPending,
    !.actionsRemaining = @ - 1]

\* resolvePendingAction 283-368
Executed(state, pa) ==
  LET done == Effect(state, pa)
  IN  checkWinCondition(
        [done EXCEPT
          !.discardPile = Append(@, pa.card),
          !.actionsRemaining = @ - 1,
          !.pendingAction = NoPending])

\* resolvePendingAction(useJSN)
resolvePendingAction(state, useJSN) ==
  LET pa == state.pendingAction
  IN  IF pa = NoPending THEN state
      ELSE IF useJSN /\ JsnIndex(state.players[Responder(pa)].hand) # 0
      THEN PlayJsn(state, pa)
      ELSE IF actionBlocked(pa.jsnStack) THEN Blocked(state, pa)
      ELSE Executed(state, pa)

\* ------------------------------------------------------------------ moves

\* What a handler leaves behind: the GameState and the interaction states.
Outcome(state, rent, forceDeal, slyDeal) ==
  [gameState |-> state, pendingRentCard |-> rent,
   pendingForceDeal |-> forceDeal, pendingSlyDeal |-> slyDeal]

\* MoveAllowed without the test of pendingAction
MoveAllowed_WhilePending(state) ==
  ~(state.actionsRemaining <= 0 \/ state.phase # "PLAY_PHASE" \/ state.winner # NoIndex)

\* executeMove 413: the updater goes on only past this line
MoveAllowed(state) ==
  ~(state.actionsRemaining <= 0 \/ state.phase # "PLAY_PHASE"
    \/ state.winner # NoIndex \/ state.pendingAction # NoPending)

\* player.hand.findIndex(c => c.id === cardId), as a position
CardIndex(hand, cardId) ==
  LET Test(c) == c = cardId IN FindIndex(hand, Test)

\* Eligible without the test of isComplete
Eligible_AnyNonEmpty(properties) ==
  {i \in 0..(Len(properties) - 1) : Len(properties[i + 1].cards) > 0}

\* executeMove 457 / 459 / 488: the 0-based indices of the sets that are
\* neither complete nor empty
Eligible(properties) ==
  {i \in 0..(Len(properties) - 1) :
     ~properties[i + 1].isComplete /\ Len(properties[i + 1].cards) > 0}

\* executeMove 424-429
Bank(state, cardIndex) ==
  LET p == state.activePlayerIndex
      card == state.players[p].hand[cardIndex]
  IN  [state EXCEPT
        !.players[p].hand = RemoveAt(@, cardIndex),
        !.players[p].bank = Append(@, card),
        !.logs = Unshift(@, Log("banked", p, card, 0)),
        !.actionsRemaining = @ - 1]

\* Deploy opening a new set for every card
Deploy_AlwaysNewSet(state, cardIndex) ==
  LET p == state.activePlayerIndex
      card == state.players[p].hand[cardIndex]
      color == ColorOrAny(card)
  IN  [state EXCEPT
        !.players[p].hand = RemoveAt(@, cardIndex),
        !.players[p].properties = PushCard(@, 0, card, color),
        !.logs = Unshift(@, Log("deployed", p, card, 0)),
        !.actionsRemaining = @ - 1]

\* executeMove 432-443
Deploy(state, cardIndex) ==
  LET p == state.activePlayerIndex
      card == state.players[p].hand[cardIndex]
      color == ColorOrAny(card)
  IN  [state EXCEPT
        !.players[p].hand = RemoveAt(@, cardIndex),
        !.players[p].properties = PushCard(@, FindColor(@, color), card, color),
        !.logs = Unshift(@, Log("deployed", p, card, 0)),
        !.actionsRemaining = @ - 1]

\* executeMove 464-471 / 491-497 / 514-519 and initiateForceDeal, initiateSlyDeal
NewPending(type, card, attackerIndex, mySetIndex, targetSetIndex) ==
  [type |-> type, card |-> card, attackerIndex |-> attackerIndex,
   mySetIndex |-> mySetIndex, targetSetIndex |-> targetSetIndex, jsnStack |-> 0]

\* Wasted without the decrement of actionsRemaining
Wasted_ActionKept(state, card, kind) ==
  [state EXCEPT
    !.logs = Unshift(@, Log(kind, state.activePlayerIndex, card, 0)),
    !.discardPile = Append(@, card)]

\* executeMove 473-475 / 499-501
Wasted(state, card, kind) ==
  [state EXCEPT
    !.logs = Unshift(@, Log(kind, state.activePlayerIndex, card, 0)),
    !.discardPile = Append(@, card),
    !.actionsRemaining = @ - 1]

\* executeMove 451-481: Math.random() picks among the eligible sets, so an
\* automated player's Force Deal has one outcome per pair of eligible sets.
PlayForceDeal(state, rent, forceDeal, slyDeal, card) ==
  LET p == state.activePlayerIndex
      myIndices == Eligible(state.players[p].properties)
      oppIndices == Eligible(state.players[Opponent(p)].properties)
  IN  IF ~state.players[p].isAI
      THEN {Outcome(state, rent, [card |-> card, mySetIndex |-> NoIndex], slyDeal)}
      ELSE IF myIndices # {} /\ oppIndices # {}
      THEN {Outcome([state EXCEPT !.pendingAction =
                       NewPending("FORCE_DEAL", card, p, myIdx, oppIdx)],
                    rent, forceDeal, slyDeal) :
              myIdx \in myIndices, oppIdx \in oppIndices}
      ELSE {Outcome(Wasted(state, card, "aifdwasted"), rent, forceDeal, slyDeal)}

\* executeMove 483-507
PlaySlyDeal(state, rent, forceDeal, slyDeal, card) ==
  LET p == state.activePlayerIndex
      oppIndices == Eligible(state.players[Opponent(p)].properties)
  IN  IF ~state.players[p].isAI
      THEN {Outcome(state, rent, forceDeal, card)}
      ELSE IF oppIndices # {}
      THEN {Outcome([state EXCEPT !.pendingAction =
                       NewPending("SLY_DEAL", card, p, NoIndex, oppIdx)],
                    rent, forceDeal, slyDeal) :
              oppIdx \in oppIndices}
      ELSE {Outcome(Wasted(state, card, "aisdwasted"), rent, forceDeal, slyDeal)}

\* ActionType naming every contested card a BIRTHDAY
ActionType_AllBirthday(name) == "BIRTHDAY"

\* executeMove 511-512
ActionType(name) ==
  CASE name = "Deal Breaker" -> "DEAL_BREAKER"
    [] name = "Debt Collector" -> "DEBT_COLLECTOR"
    [] name = "It's My Birthday" -> "BIRTHDAY"

\* PlayOther with Pass Go drawing a single card
PlayOther_DrawsOne(state, card) ==
  LET p == state.activePlayerIndex
      name == CardTable[card].name
  IN  IF name \in {"Deal Breaker", "Debt Collector", "It's My Birthday"}
      THEN [state EXCEPT !.pendingAction =
              NewPending(ActionType(name), card, p, NoIndex, NoIndex)]
      ELSE IF name = "Pass Go"
      THEN [state EXCEPT
             !.players[p].hand = @ \o Front(state.deck, 1),
             !.deck = Rest(@, 1),
             !.logs = Unshift(@, Log("passgo", p, card, 0)),
             !.discardPile = Append(@, card),
             !.actionsRemaining = @ - 1]
      ELSE [state EXCEPT
             !.logs = Unshift(@, Log("played", p, card, 0)),
             !.discardPile = Append(@, card),
             !.actionsRemaining = @ - 1]

\* executeMove 509-532: the contested cards that need no target, and the rest
PlayOther(state, card) ==
  LET p == state.activePlayerIndex
      name == CardTable[card].name
  IN  IF name \in {"Deal Breaker", "Debt Collector", "It's My Birthday"}
      THEN [state EXCEPT !.pendingAction =
              NewPending(ActionType(name), card, p, NoIndex, NoIndex)]
      ELSE IF name = "Pass Go"
      THEN [state EXCEPT
             !.players[p].hand = @ \o Front(state.deck, 2),
             !.deck = Rest(@, 2),
             !.logs = Unshift(@, Log("passgo", p, card, 0)),
             !.discardPile = Append(@, card),
             !.actionsRemaining = @ - 1]
      ELSE [state EXCEPT
             !.logs = Unshift(@, Log("played", p, card, 0)),
             !.discardPile = Append(@, card),
             !.actionsRemaining = @ - 1]

\* ActionPlay with a Rent card paying its action when it is played
ActionPlay_RentPaidAtPlay(state, rent, forceDeal, slyDeal, cardIndex) ==
  LET p == state.activePlayerIndex
      card == state.players[p].hand[cardIndex]
      taken == [state EXCEPT !.players[p].hand = RemoveAt(@, cardIndex)]
  IN  IF CardTable[card].type = "RENT"
      THEN {Outcome([taken EXCEPT !.actionsRemaining = @ - 1], card, forceDeal, slyDeal)}
      ELSE IF CardTable[card].name = "Force Deal"
      THEN PlayForceDeal(taken, rent, forceDeal, slyDeal, card)
      ELSE IF CardTable[card].name = "Sly Deal"
      THEN PlaySlyDeal(taken, rent, forceDeal, slyDeal, card)
      ELSE {Outcome(checkWinCondition(PlayOther(taken, card)), rent, forceDeal, slyDeal)}

\* executeMove 444-533, with the card already found at cardIndex
ActionPlay(state, rent, forceDeal, slyDeal, cardIndex) ==
  LET p == state.activePlayerIndex
      card == state.players[p].hand[cardIndex]
      taken == [state EXCEPT !.players[p].hand = RemoveAt(@, cardIndex)]
  IN  IF CardTable[card].type = "RENT"
      THEN {Outcome(taken, card, forceDeal, slyDeal)}
      ELSE IF CardTable[card].name = "Force Deal"
      THEN PlayForceDeal(taken, rent, forceDeal, slyDeal, card)
      ELSE IF CardTable[card].name = "Sly Deal"
      THEN PlaySlyDeal(taken, rent, forceDeal, slyDeal, card)
      ELSE {Outcome(checkWinCondition(PlayOther(taken, card)), rent, forceDeal, slyDeal)}

\* executeMove(type, cardId): every state the call can leave (one, unless
\* Math.random() has a choice)
executeMove(state, rent, forceDeal, slyDeal, type, cardId) ==
  LET unchanged == {Outcome(state, rent, forceDeal, slyDeal)}
      cardIndex == CardIndex(state.players[state.activePlayerIndex].hand, cardId)
  IN  IF ~MoveAllowed(state) THEN unchanged
      ELSE IF cardIndex = 0 THEN unchanged
      ELSE CASE type = "BANK" ->
                  {Outcome(checkWinCondition(Bank(state, cardIndex)),
                           rent, forceDeal, slyDeal)}
             [] type = "PROPERTY" ->
                  IF CardTable[cardId].type \notin {"PROPERTY", "WILD"}
                  THEN unchanged
                  ELSE {Outcome(checkWinCondition(Deploy(state, cardIndex)),
                                rent, forceDeal, slyDeal)}
             [] type = "ACTION_PLAY" ->
                  ActionPlay(state, rent, forceDeal, slyDeal, cardIndex)

\* rentVal charging the first entry of the schedule for each card
rentVal_PerCard(targetSet) ==
  RENT_VALUES(targetSet.color)[1] * Len(targetSet.cards)

\* handleRentCollection 221-223: rentArr[count - 1] || 0
rentVal(targetSet) ==
  LET rentArr == RENT_VALUES(targetSet.color)
      count == IF Len(targetSet.cards) < Len(rentArr) THEN Len(targetSet.cards)
               ELSE Len(rentArr)
  IN  IF count >= 1 THEN rentArr[count] ELSE 0

\* handleRentCollection(setIndex), setIndex naming one of the active player's sets
handleRentCollection(state, rent, setIndex) ==
  LET p == state.activePlayerIndex
      targetSet == state.players[p].properties[setIndex + 1]
      paid == processPayment(state.players, Opponent(p), p, rentVal(targetSet),
                             Unshift(state.logs, Log("rent", p, rentVal(targetSet), 0)))
  IN  checkWinCondition(
        [state EXCEPT
          !.players = paid.players,
          !.logs = paid.logs,
          !.discardPile = Append(@, rent),
          !.actionsRemaining = @ - 1])

\* initiateForceDeal(targetSetIndex) 374-387
initiateForceDeal(state, forceDeal, targetSetIndex) ==
  IF forceDeal = NoForceDeal \/ forceDeal.mySetIndex = NoIndex THEN state
  ELSE [state EXCEPT !.pendingAction =
          NewPending("FORCE_DEAL", forceDeal.card, state.activePlayerIndex,
                     forceDeal.mySetIndex, targetSetIndex)]

\* initiateSlyDeal(targetSetIndex) 394-406
initiateSlyDeal(state, slyDeal, targetSetIndex) ==
  IF slyDeal = NoCard THEN state
  ELSE [state EXCEPT !.pendingAction =
          NewPending("SLY_DEAL", slyDeal, state.activePlayerIndex,
                     NoIndex, targetSetIndex)]

\* startTurn without the test of the phase
startTurn_AnyPhase(state) ==
  LET p == state.activePlayerIndex
      drawCount == IF Len(state.players[p].hand) = 0 THEN 5 ELSE 2
  IN  [state EXCEPT
        !.players[p].hand = @ \o Front(state.deck, drawCount),
        !.deck = Rest(@, drawCount),
        !.actionsRemaining = 3,
        !.phase = "PLAY_PHASE",
        !.logs = Unshift(@, Log("draws", p, drawCount, 0))]

\* startTurn 545-555
startTurn(state) ==
  IF state.phase # "START_TURN" THEN state
  ELSE LET p == state.activePlayerIndex
           drawCount == IF Len(state.players[p].hand) = 0 THEN 5 ELSE 2
       IN  [state EXCEPT
             !.players[p].hand = @ \o Front(state.deck, drawCount),
             !.deck = Rest(@, drawCount),
             !.actionsRemaining = 3,
             !.phase = "PLAY_PHASE",
             !.logs = Unshift(@, Log("draws", p, drawCount, 0))]

\* endTurn without the test of the phase
endTurn_AnyPhase(state) ==
  LET nextIdx == (state.activePlayerIndex + 1) % 2
  IN  [state EXCEPT
        !.activePlayerIndex = nextIdx,
        !.actionsRemaining = 3,
        !.phase = "START_TURN",
        !.logs = Unshift(@, Log("turnchange", nextIdx, 0, 0))]

\* endTurn leaving the game in an END_TURN phase
endTurn_ToEndTurnPhase(state) ==
  IF state.phase # "PLAY_PHASE" THEN state
  ELSE LET nextIdx == (state.activePlayerIndex + 1) % 2
       IN  [state EXCEPT
             !.activePlayerIndex = nextIdx,
             !.actionsRemaining = 3,
             !.phase = "END_TURN",
             !.logs = Unshift(@, Log("turnchange", nextIdx, 0, 0))]

\* endTurn 561-571
endTurn(state) ==
  IF state.phase # "PLAY_PHASE" THEN state
  ELSE LET nextIdx == (state.activePlayerIndex + 1) % 2
       IN  [state EXCEPT
             !.activePlayerIndex = nextIdx,
             !.actionsRemaining = 3,
             !.phase = "START_TURN",
             !.logs = Unshift(@, Log("turnchange", nextIdx, 0, 0))]

\* App 792-806 (local play): the player whose side of the table is shown
viewIndex(state) ==
  IF state.pendingAction # NoPending THEN Responder(state.pendingAction)
  ELSE state.activePlayerIndex

\* CancelTo pushing the card without the selection having held the only copy
CancelTo_PushTwice(state, card) ==
  [state EXCEPT !.players[viewIndex(state)].hand = Append(Append(@, card), card)]

\* CANCEL ACTION 1077 / 1084 / 1091: me.hand.push(card)
CancelTo(state, card) ==
  [state EXCEPT !.players[viewIndex(state)].hand = Append(@, card)]

\* ------------------------------------------------------------------ positions

\* A set as executeMove PROPERTY leaves it after deploying `cards` in order.
Deployed(color, cards) ==
  [color |-> color, cards |-> cards, isComplete |-> Len(cards) >= SET_LIMITS(color)]

Seat(hand, bank, properties, isAI) ==
  [hand |-> hand, bank |-> bank, properties |-> properties, isAI |-> isAI]

\* A GameState at the start of a turn, as initializeGame (first turn) or
\* endTurn (later turns) leaves it; the log of the earlier turns is not kept.
Position(active, p1, p2, deck, discardPile) ==
  [players |-> [i \in 0..1 |-> IF i = 0 THEN p1 ELSE p2],
   activePlayerIndex |-> active,
   deck |-> deck,
   discardPile |-> discardPile,
   phase |-> "START_TURN",
   actionsRemaining |-> 3,
   logs |-> <<Log("started", 0, 0, 0)>>,
   winner |-> NoIndex,
   pendingAction |-> NoPending]

\* initializeGame(true) on one shuffle of the deck: five cards each, the
\* second player automated.
FreshDeal ==
  LET deck == <<13, 15, 9, 12, 7, 2, 3, 8, 17, 5,
                1, 11, 14, 16, 18, 19, 20, 21, 4, 6, 10, 22>>
  IN  Position(0,
        Seat(SubSeq(deck, 1, 5), <<>>, <<>>, FALSE),
        Seat(SubSeq(deck, 6, 10), <<>>, <<>>, TRUE),
        SubSeq(deck, 11, Len(deck)), <<>>)

\* Later turns of a game, each a position that play from a deal leads to.
\* A debtor with a one-card bank and a Dark Blue set of three cards.
DebtorPosition ==
  Position(0,
    Seat(<<9, 12>>, <<>>, <<Deployed("BROWN", <<13>>)>>, FALSE),
    Seat(<<8>>, <<1>>,
         <<Deployed("DARK_BLUE", <<15, 16, 20>>), Deployed("UTILITY", <<17>>)>>, FALSE),
    <<10, 2, 3, 14, 18, 19, 21, 4, 5, 6, 7, 11, 22>>, <<>>)

\* The three Just Say No are in the hands, one with the player to move and
\* two with the second player, who owns a complete set and a bank of 5M and 2M.
CounterPosition ==
  Position(0,
    Seat(<<7>>, <<>>, <<>>, FALSE),
    Seat(<<8, 22>>, <<3, 2>>, <<Deployed("UTILITY", <<17, 18>>)>>, FALSE),
    <<4, 9, 1, 10, 13, 14, 15, 16, 19, 20, 21, 5, 6, 11, 12>>, <<>>)

\* The second player is one Brown card short of a third complete set.
SwapPosition ==
  Position(0,
    Seat(<<6, 5>>, <<>>, <<Deployed("BROWN", <<14>>)>>, FALSE),
    Seat(<<10>>, <<2>>,
         <<Deployed("DARK_BLUE", <<15, 16>>), Deployed("UTILITY", <<17, 18>>),
           Deployed("BROWN", <<13>>), Deployed("LIGHT_BLUE", <<19>>)>>, FALSE),
    <<21, 1, 3, 4, 7, 8, 9, 11, 12, 20, 22>>, <<>>)

\* The automated player is to move, holding Sly Deal and Force Deal.
AutomatedPosition ==
  Position(1,
    Seat(<<7>>, <<1>>,
         <<Deployed("BROWN", <<13>>), Deployed("UTILITY", <<17>>),
           Deployed("DARK_BLUE", <<15, 16>>)>>, FALSE),
    Seat(<<5, 6>>, <<>>, <<Deployed("LIGHT_BLUE", <<19>>)>>, TRUE),
    <<12, 2, 3, 4, 8, 9, 10, 11, 14, 18, 20, 21, 22>>, <<>>)

\* The player to move is one Brown card short of winning and holds a rent card.
MatchPointPosition ==
  Position(0,
    Seat(<<14>>, <<>>,
         <<Deployed("DARK_BLUE", <<15, 16>>), Deployed("UTILITY", <<17, 18>>),
           Deployed("BROWN", <<13>>)>>, FALSE),
    Seat(<<8>>, <<2, 1>>, <<Deployed("LIGHT_BLUE", <<19>>)>>, FALSE),
    <<12, 4, 3, 5, 6, 7, 9, 10, 11, 20, 21, 22>>, <<>>)

\* The player to move holds Deal Breaker and a Dark Blue wild card of their
\* own, against a complete Dark Blue set.
RivalSetPosition ==
  Position(0,
    Seat(<<4>>, <<>>, <<Deployed("DARK_BLUE", <<20>>)>>, FALSE),
    Seat(<<2>>, <<>>, <<Deployed("DARK_BLUE", <<15, 16>>)>>, FALSE),
    <<1, 3, 5, 6, 7, 8, 9, 10, 11, 12, 13, 14, 17, 18, 19, 21, 22>>, <<>>)

\* The player to move holds Deal Breaker against an incomplete set followed
\* by two complete ones.
BreakerPosition ==
  Position(0,
    Seat(<<4>>, <<>>, <<>>, FALSE),
    Seat(<<2>>, <<>>,
         <<Deployed("BROWN", <<13>>), Deployed("UTILITY", <<17, 18>>),
           Deployed("DARK_BLUE", <<15, 16>>)>>, FALSE),
    <<1, 3, 5, 6, 7, 8, 9, 10, 11, 12, 14, 19, 20, 21, 22>>, <<>>)

\* Late in a game: three cards are left in the deck, and the player to move
\* has played out their hand and owns a Dark Blue set of three cards.
LastCardsPosition ==
  Position(0,
    Seat(<<>>, <<1, 3>>,
         <<Deployed("BROWN", <<13>>), Deployed("DARK_BLUE", <<15, 16, 20>>),
           Deployed("LIGHT_BLUE", <<19, 21>>)>>, FALSE),
    Seat(<<7, 14>>, <<2>>, <<Deployed("UTILITY", <<17, 18>>)>>, FALSE),
    <<12, 11, 9>>, <<5, 10, 6, 8, 4, 22>>)

Positions ==
  {FreshDeal, DebtorPosition, CounterPosition, SwapPosition, AutomatedPosition,
   MatchPointPosition, RivalSetPosition, BreakerPosition, LastCardsPosition}

\* ------------------------------------------------------------------ specification

\* No runAI is in progress.
AiIdle == [pc |-> "idle", left |-> 0]

Init ==
  /\ gameState \in Positions
  /\ pendingRentCard = NoCard
  /\ pendingForceDeal = NoForceDeal
  /\ pendingSlyDeal = NoCard
  /\ aiProcessing = FALSE
  /\ aiLoop = AiIdle
  /\ aiLoops = 0

MoveTypes == {"BANK", "PROPERTY", "ACTION_PLAY"}

\* The handlers that write a log line are taken while the log is short.
LogOpen == Len(gameState.logs) < MaxLogs

Apply(outcome) ==
  /\ gameState' = outcome.gameState
  /\ pendingRentCard' = outcome.pendingRentCard
  /\ pendingForceDeal' = outcome.pendingForceDeal
  /\ pendingSlyDeal' = outcome.pendingSlyDeal

ExecuteMove ==
  /\ LogOpen
  /\ \E type \in MoveTypes, cardId \in INITIAL_DECK :
       \E outcome \in executeMove(gameState, pendingRentCard, pendingForceDeal,
                                  pendingSlyDeal, type, cardId) :
         Apply(outcome)
  /\ UNCHANGED aiVars

\* handleRentCollection 211-238, on a set the active player owns
HandleRentCollection ==
  /\ LogOpen
  /\ pendingRentCard # NoCard
  /\ \E setIndex \in 0..MaxSetIndex :
       /\ HasSet(gameState.players[gameState.activePlayerIndex].properties, setIndex)
       /\ gameState' = handleRentCollection(gameState, pendingRentCard, setIndex)
  /\ pendingRentCard' = NoCard
  /\ UNCHANGED <<pendingForceDeal, pendingSlyDeal>>
  /\ UNCHANGED aiVars

\* App 988: setPendingForceDeal(prev => ({...prev!, mySetIndex: i}))
SelectMySet ==
  /\ pendingForceDeal # NoForceDeal
  /\ pendingForceDeal.mySetIndex = NoIndex
  /\ \E i \in 0..MaxSetIndex : pendingForceDeal' = [pendingForceDeal EXCEPT !.mySetIndex = i]
  /\ UNCHANGED <<gameState, pendingRentCard, pendingSlyDeal>>
  /\ UNCHANGED aiVars

\* initiateForceDeal 372-390
InitiateForceDeal ==
  /\ \E targetSetIndex \in 0..MaxSetIndex :
       gameState' = initiateForceDeal(gameState, pendingForceDeal, targetSetIndex)
  /\ pendingForceDeal' = NoForceDeal
  /\ UNCHANGED <<pendingRentCard, pendingSlyDeal>>
  /\ UNCHANGED aiVars

\* initiateSlyDeal 392-409
InitiateSlyDeal ==
  /\ \E targetSetIndex \in 0..MaxSetIndex :
       gameState' = initiateSlyDeal(gameState, pendingSlyDeal, targetSetIndex)
  /\ pendingSlyDeal' = NoCard
  /\ UNCHANGED <<pendingRentCard, pendingForceDeal>>
  /\ UNCHANGED aiVars

ResolvePendingAction ==
  /\ LogOpen
  /\ \E useJSN \in BOOLEAN : gameState' = resolvePendingAction(gameState, useJSN)
  /\ UNCHANGED <<pendingRentCard, pendingForceDeal, pendingSlyDeal>>
  /\ UNCHANGED aiVars

StartTurn ==
  /\ LogOpen
  /\ gameState' = startTurn(gameState)
  /\ UNCHANGED <<pendingRentCard, pendingForceDeal, pendingSlyDeal>>
  /\ UNCHANGED aiVars

\* endTurn 559-577: the interaction states are cleared whatever the phase
EndTurn ==
  /\ LogOpen
  /\ gameState' = endTurn(gameState)
  /\ pendingRentCard' = NoCard
  /\ pendingForceDeal' = NoForceDeal
  /\ pendingSlyDeal' = NoCard
  /\ UNCHANGED aiVars

\* CANCEL ACTION 1074-1092: the footer shows one of the three buttons
CancelRent ==
  /\ pendingRentCard # NoCard
  /\ gameState' = CancelTo(gameState, pendingRentCard)
  /\ pendingRentCard' = NoCard
  /\ UNCHANGED <<pendingForceDeal, pendingSlyDeal>>
  /\ UNCHANGED aiVars

CancelForceDeal ==
  /\ pendingRentCard = NoCard
  /\ pendingForceDeal # NoForceDeal
  /\ gameState' = CancelTo(gameState, pendingForceDeal.card)
  /\ pendingForceDeal' = NoForceDeal
  /\ UNCHANGED <<pendingRentCard, pendingSlyDeal>>
  /\ UNCHANGED aiVars

CancelSlyDeal ==
  /\ pendingRentCard = NoCard
  /\ pendingForceDeal = NoForceDeal
  /\ pendingSlyDeal # NoCard
  /\ gameState' = CancelTo(gameState, pendingSlyDeal)
  /\ pendingSlyDeal' = NoCard
  /\ UNCHANGED <<pendingRentCard, pendingForceDeal>>
  /\ UNCHANGED aiVars

Next ==
  \/ ExecuteMove
  \/ HandleRentCollection
  \/ SelectMySet
  \/ InitiateForceDeal
  \/ InitiateSlyDeal
  \/ ResolvePendingAction
  \/ StartTurn
  \/ EndTurn
  \/ CancelRent
  \/ CancelForceDeal
  \/ CancelSlyDeal

Spec == Init /\ [][Next]_vars

\* ------------------------------------------------------------------ properties

Players == {0, 1}

RECURSIVE CardsOfSets(_)
CardsOfSets(properties) ==
  IF properties = <<>> THEN <<>>
  ELSE Head(properties).cards \o CardsOfSets(Tail(properties))

\* The cards in the five kinds of container, in one sequence.
Held(state) ==
  state.deck \o state.discardPile
    \o state.players[0].hand \o state.players[0].bank
    \o CardsOfSets(state.players[0].properties)
    \o state.players[1].hand \o state.players[1].bank
    \o CardsOfSets(state.players[1].properties)

Count(c, s) == Cardinality({i \in 1..Len(s) : s[i] = c})

\* The value of a player's bank and property cards.
Assets(player) == SumValues(player.bank) + SumValues(CardsOfSets(player.properties))

\* The lines a handler put in front of the log.
NewLogs(pre, post) == SubSeq(post.logs, 1, Len(post.logs) - Len(pre.logs))

Kinds(lines) == {lines[i].k : i \in 1..Len(lines)}

\* The answer ends the counter-play: a decline, or a counter the responder
\* cannot back with a card.
FinalResponse(state, useJSN) ==
  /\ state.pendingAction # NoPending
  /\ ~useJSN \/ JsnIndex(state.players[Responder(state.pendingAction)].hand) = 0

\* Each card of the initial deck is held exactly once by the deck, the discard
\* pile, a hand, a bank or a property set.
Conservation ==
  \A c \in INITIAL_DECK : Count(c, Held(gameState)) = 1

\* Nothing is in flight: no pending action and no selection under way.
AtRest ==
  /\ gameState.pendingAction = NoPending
  /\ pendingRentCard = NoCard
  /\ pendingForceDeal = NoForceDeal
  /\ pendingSlyDeal = NoCard

\* C1 (Conservation): in every reachable state the cards of the deck, the
\* discard pile and both players' hands, banks and property sets are the
\* initial deck, no card lost and none duplicated.  A played card waits in the
\* PendingAction or in a selection state until it is resolved, so the property
\* is stated for the states where nothing is in flight, which the claim
\* covers: a card missing there is missing for good.
ConservationAtRest == AtRest => Conservation

\* C2 (Completion invariant): every property set of every player is flagged
\* complete exactly when it holds at least SET_LIMITS of its color.
CompletionInvariant ==
  \A p \in Players :
    \A i \in 1..Len(gameState.players[p].properties) :
      LET set == gameState.players[p].properties[i]
      IN  set.isComplete <=> (Len(set.cards) >= SET_LIMITS(set.color))

\* What a blocked action leaves: the "blocked" line, and every hand, bank and
\* set as it was.
WasBlocked(pre, post) ==
  /\ "blocked" \in Kinds(NewLogs(pre, post))
  /\ post.players = pre.players

\* What an executed action leaves, by type: its line in the log and its
\* transfer, wherever the state before offers something to transfer.
WasExecuted(pre, post) ==
  LET pa == pre.pendingAction
      a == pa.attackerIndex
      o == Opponent(a)
      kinds == Kinds(NewLogs(pre, post))
  IN  /\ "blocked" \notin kinds
      /\ CASE pa.type = "DEBT_COLLECTOR" ->
                /\ "debtcollector" \in kinds
                /\ Assets(pre.players[o]) > 0 => Assets(post.players[a]) > Assets(pre.players[a])
           [] pa.type = "BIRTHDAY" ->
                /\ "birthday" \in kinds
                /\ Assets(pre.players[o]) > 0 => Assets(post.players[a]) > Assets(pre.players[a])
           [] pa.type = "DEAL_BREAKER" ->
                FullSets(pre.players[o].properties) > 0
                  => /\ "dealbreaker" \in kinds
                     /\ FullSets(post.players[o].properties)
                          = FullSets(pre.players[o].properties) - 1
                     /\ Len(post.players[a].properties)
                          = Len(pre.players[a].properties) + 1
           [] pa.type = "FORCE_DEAL" ->
                (HasSet(pre.players[a].properties, pa.mySetIndex)
                 /\ HasSet(pre.players[o].properties, pa.targetSetIndex))
                  => /\ "forcedeal" \in kinds
                     /\ post.players[a].properties # pre.players[a].properties
                     /\ post.players[o].properties # pre.players[o].properties
           [] pa.type = "SLY_DEAL" ->
                \/ "slyinvalid" \in kinds /\ post.players = pre.players
                \/ "stole" \in kinds
                   /\ Len(CardsOfSets(post.players[a].properties))
                        = Len(CardsOfSets(pre.players[a].properties)) + 1

\* C3 (Counter-stack parity): at the final response to a pending action the
\* effect is executed exactly when jsnStack is even, and the action is
\* blocked with no effect exactly when jsnStack is odd.
CounterStackParity ==
  \A useJSN \in BOOLEAN :
    FinalResponse(gameState, useJSN) =>
      LET post == resolvePendingAction(gameState, useJSN)
          even == gameState.pendingAction.jsnStack % 2 = 0
      IN  /\ WasExecuted(gameState, post) <=> even
          /\ WasBlocked(gameState, post) <=> ~even

\* C3 witness: an action went through after a counter and a counter to it.
CounterStackParityWitness ==
  \E i \in 2..Len(gameState.logs) :
    /\ gameState.logs[i].k = "jsn"
    /\ gameState.logs[i].c = 2
    /\ gameState.logs[i - 1].k \in {"dealbreaker", "debtcollector"}

\* C4 (Win exactness): a winner is named, with phase GAME_OVER, in exactly
\* the states where some player holds three complete sets: not before any
\* player has them, and from the transition that gives them to a player.
WinExactness ==
  /\ (gameState.winner # NoIndex)
       <=> (\E p \in Players : FullSets(gameState.players[p].properties) >= 3)
  /\ (gameState.winner # NoIndex) <=> (gameState.phase = "GAME_OVER")

Min(a, b) == IF a < b THEN a ELSE b

\* C5 (Settlement monotonicity): whoever owes and whatever the amount, the
\* creditor's bank and properties gain at least min(amount, value of the
\* debtor's bank and properties), and the debtor gives up exactly that gain.
SettlementMonotonicity ==
  \A from \in Players, amount \in 0..MaxAmount :
    LET to == Opponent(from)
        paid == processPayment(gameState.players, from, to, amount, gameState.logs)
        received == Assets(paid.players[to]) - Assets(gameState.players[to])
    IN  /\ received >= Min(amount, Assets(gameState.players[from]))
        /\ Assets(paid.players[from]) = Assets(gameState.players[from]) - received
        /\ Assets(paid.players[from]) >= 0

\* C5 witness: a settlement has run through the bank into the property sets.
SettlementWitness ==
  \E i \in 2..Len(gameState.logs) :
    /\ gameState.logs[i].k = "paid"
    /\ gameState.logs[i - 1].k = "surrendered"

\* The card is in the hand of the player to move.
InActiveHand(state, cardId) ==
  CardIndex(state.players[state.activePlayerIndex].hand, cardId) # 0

\* C6 (executeMove is absorbed): outside PLAY_PHASE, with no action left, with
\* a winner, with a pending action, or for a card that is not in the active
\* hand, executeMove leaves the GameState and the interaction states as they
\* were.
ExecuteMoveAbsorbed ==
  \A type \in MoveTypes, cardId \in INITIAL_DECK :
    (\/ gameState.phase # "PLAY_PHASE"
     \/ gameState.actionsRemaining <= 0
     \/ gameState.winner # NoIndex
     \/ gameState.pendingAction # NoPending
     \/ ~InActiveHand(gameState, cardId))
      => executeMove(gameState, pendingRentCard, pendingForceDeal, pendingSlyDeal,
                     type, cardId)
           = {Outcome(gameState, pendingRentCard, pendingForceDeal, pendingSlyDeal)}

\* C6 witness: a pending action is all that stands between the active player
\* and a move (the phase, the actions left and the hand allow one), and the
\* game has gone on from there by a counter.
ExecuteMoveAbsorbedWitness ==
  /\ gameState.pendingAction # NoPending
  /\ gameState.pendingAction.jsnStack = 1
  /\ gameState.phase = "PLAY_PHASE"
  /\ gameState.actionsRemaining > 0
  /\ gameState.winner = NoIndex
  /\ Len(gameState.players[gameState.activePlayerIndex].hand) > 0

\* C7 (Win is terminal): once a winner is named and the phase is GAME_OVER,
\* no step changes the GameState.
WinIsTerminal ==
  [][(gameState.winner # NoIndex /\ gameState.phase = "GAME_OVER")
       => gameState' = gameState]_vars

\* C8 as claimed (determinism): every move has exactly one resulting state.
Deterministic ==
  \A type \in MoveTypes, cardId \in INITIAL_DECK :
    Cardinality(executeMove(gameState, pendingRentCard, pendingForceDeal,
                            pendingSlyDeal, type, cardId)) = 1

IncompleteNonEmpty(properties, index) ==
  /\ HasSet(properties, index)
  /\ ~properties[index + 1].isComplete
  /\ Len(properties[index + 1].cards) > 0

\* C8 as amended: a move has one resulting state, except an automated
\* player's Force Deal or Sly Deal, whose resulting states differ only in the
\* set indices of the PendingAction, one state per choice of incomplete
\* non-empty sets.
DeterministicButForTargets ==
  \A type \in MoveTypes, cardId \in INITIAL_DECK :
    LET outs == executeMove(gameState, pendingRentCard, pendingForceDeal,
                            pendingSlyDeal, type, cardId)
        p == gameState.activePlayerIndex
        mine == gameState.players[p].properties
        theirs == gameState.players[Opponent(p)].properties
        Strip(o) == [o EXCEPT !.gameState.pendingAction.mySetIndex = NoIndex,
                              !.gameState.pendingAction.targetSetIndex = NoIndex]
    IN  \/ Cardinality(outs) = 1
        \/ /\ gameState.players[p].isAI
           /\ type = "ACTION_PLAY"
           /\ CardTable[cardId].name \in {"Force Deal", "Sly Deal"}
           /\ \A o1, o2 \in outs : Strip(o1) = Strip(o2)
           /\ \A o \in outs :
                /\ IncompleteNonEmpty(theirs, o.gameState.pendingAction.targetSetIndex)
                /\ CardTable[cardId].name = "Force Deal"
                     => IncompleteNonEmpty(mine, o.gameState.pendingAction.mySetIndex)

\* C8 witness: the automated player's Sly Deal is pending on the second of
\* the two sets it could have picked.
RandomTargetWitness ==
  /\ gameState.pendingAction.type = "SLY_DEAL"
  /\ gameState.players[gameState.pendingAction.attackerIndex].isAI
  /\ gameState.pendingAction.targetSetIndex = 1
  /\ gameState.pendingAction.jsnStack = 0

\* The pending action names a set its player does not have, or an empty one.
NoSuchSet(properties, index) ==
  ~HasSet(properties, index) \/ Len(properties[index + 1].cards) = 0

\* C9 (Force Deal on a missing set): at even jsnStack the final response to a
\* FORCE_DEAL naming a missing or empty set moves no property, records one
\* no-effect line in the log, discards the card, clears pendingAction and
\* consumes one action.
ForceDealOnMissingSet ==
  \A useJSN \in BOOLEAN :
    LET pa == gameState.pendingAction
        post == resolvePendingAction(gameState, useJSN)
    IN  (/\ FinalResponse(gameState, useJSN)
         /\ pa.type = "FORCE_DEAL"
         /\ pa.jsnStack % 2 = 0
         /\ \/ NoSuchSet(gameState.players[pa.attackerIndex].properties, pa.mySetIndex)
            \/ NoSuchSet(gameState.players[Opponent(pa.attackerIndex)].properties,
                         pa.targetSetIndex))
          => /\ post.players = gameState.players
             /\ Len(NewLogs(gameState, post)) = 1
             /\ post.discardPile = Append(gameState.discardPile, pa.card)
             /\ post.pendingAction = NoPending
             /\ post.actionsRemaining = gameState.actionsRemaining - 1

\* C10 (Sly Deal on a complete or missing set): at even jsnStack the final
\* response to a SLY_DEAL aimed at a complete, empty or missing set moves no
\* card between the players, logs the failure, discards the card, clears
\* pendingAction and consumes exactly one action.
SlyDealOnInvalidTarget ==
  \A useJSN \in BOOLEAN :
    LET pa == gameState.pendingAction
        theirs == gameState.players[Opponent(pa.attackerIndex)].properties
        post == resolvePendingAction(gameState, useJSN)
    IN  (/\ FinalResponse(gameState, useJSN)
         /\ pa.type = "SLY_DEAL"
         /\ pa.jsnStack % 2 = 0
         /\ \/ NoSuchSet(theirs, pa.targetSetIndex)
            \/ theirs[pa.targetSetIndex + 1].isComplete)
          => /\ post.players = gameState.players
             /\ Kinds(NewLogs(gameState, post)) = {"slyinvalid"}
             /\ Len(NewLogs(gameState, post)) = 1
             /\ post.discardPile = Append(gameState.discardPile, pa.card)
             /\ post.pendingAction = NoPending
             /\ post.actionsRemaining = gameState.actionsRemaining - 1

\* C10 witness: a Sly Deal aimed at a complete set has been resolved.
SlyDealOnInvalidTargetWitness ==
  /\ Len(gameState.logs) > 1
  /\ Head(gameState.logs).k = "slyinvalid"
  /\ gameState.pendingAction = NoPending
  /\ \E p \in Players : FullSets(gameState.players[p].properties) > 0

\* ------------------------------------------------------------------ settlement, step by step

Reverse(s) == [i \in 1..Len(s) |-> s[Len(s) + 1 - i]]

\* The cards named by the lines of one kind, oldest first.
CardsLogged(lines, kind) ==
  LET Of(l) == l.k = kind
      picked == SelectSeq(Reverse(lines), Of)
  IN  [i \in 1..Len(picked) |-> picked[i].c]

\* The length of the shortest prefix of `cards` worth at least `amount`, the
\* whole of it when it is worth less.
ShortestPrefix(cards, amount) ==
  IF \E n \in 0..Len(cards) : SumValues(SubSeq(cards, 1, n)) >= amount
  THEN CHOOSE n \in 0..Len(cards) :
         /\ SumValues(SubSeq(cards, 1, n)) >= amount
         /\ \A m \in 0..(n - 1) : SumValues(SubSeq(cards, 1, m)) < amount
  ELSE Len(cards)

Ascending(cards) ==
  \A i \in 1..(Len(cards) - 1) : CardTable[cards[i]].value <= CardTable[cards[i + 1]].value

SameCards(s, t) == \A c \in INITIAL_DECK : Count(c, s) = Count(c, t)

\* C11 (bank in ascending value order): for every debtor and amount, the bank
\* cards a settlement moves, followed by those it leaves, are the debtor's
\* bank in ascending order of value; the moved ones are the shortest prefix
\* worth at least the amount (the whole bank when it is worth less), the last
\* of them moved whole, and they are added to the creditor's bank.
BankInValueOrder ==
  \A from \in Players, amount \in 0..MaxAmount :
    LET to == Opponent(from)
        bank == gameState.players[from].bank
        paid == processPayment(gameState.players, from, to, amount, gameState.logs)
        kept == paid.players[from].bank
        moved == SubSeq(paid.players[to].bank,
                        Len(gameState.players[to].bank) + 1, Len(paid.players[to].bank))
    IN  /\ SubSeq(paid.players[to].bank, 1, Len(gameState.players[to].bank))
             = gameState.players[to].bank
        /\ SameCards(moved \o kept, bank)
        /\ Ascending(moved \o kept)
        /\ Len(moved) = ShortestPrefix(moved \o kept, amount)

\* C11 witness: a bank of 5M and 2M, banked in that order, has paid a debt of
\* 5 with the 2M and then the 5M, and is empty.
BankInValueOrderWitness ==
  /\ Len(gameState.logs) >= 4
  /\ gameState.logs[1].k = "nochange"
  /\ gameState.logs[2].k = "paid" /\ CardTable[gameState.logs[2].c].value = 5
  /\ gameState.logs[3].k = "paid" /\ CardTable[gameState.logs[3].c].value = 2
  /\ gameState.logs[4].k = "debtcollector"
  /\ gameState.players[gameState.logs[2].p].bank = <<>>

\* C12 (a settlement ends, and an insolvent debtor pays everything): for every
\* debtor and amount the settlement moves no more cards than the debtor had;
\* when the debtor's bank and properties are worth less than the amount, the
\* debtor is left with an empty bank and no property set, the same hand, and
\* the same fields as before (nothing records a debt).
InsolventPaysAll ==
  \A from \in Players, amount \in 0..MaxAmount :
    LET to == Opponent(from)
        debtor == gameState.players[from]
        paid == processPayment(gameState.players, from, to, amount, gameState.logs)
        lines == NewLogs(gameState, paid)
        moves == Len(CardsLogged(lines, "paid")) + Len(CardsLogged(lines, "surrendered"))
    IN  /\ moves <= Len(debtor.bank) + Len(CardsOfSets(debtor.properties))
        /\ Assets(debtor) < amount
             => /\ paid.players[from].bank = <<>>
                /\ paid.players[from].properties = <<>>
                /\ paid.players[from].hand = debtor.hand
                /\ DOMAIN paid.players[from] = DOMAIN debtor

\* C12 witness: rent of 8M has been collected from a player who owned 4M in
\* all and now owns nothing.
InsolventPaysAllWitness ==
  /\ \E i \in 1..Len(gameState.logs) : gameState.logs[i].k = "rent" /\ gameState.logs[i].c = 8
  /\ Head(gameState.logs).k = "surrendered"
  /\ LET debtor == gameState.players[Head(gameState.logs).p]
     IN  debtor.bank = <<>> /\ debtor.properties = <<>> /\ debtor.hand # <<>>

\* C13 (actions in range): in every reachable state actionsRemaining is one of
\* 0, 1, 2, 3.
ActionsInRange ==
  gameState.actionsRemaining \in 0..3

\* C14 (one set per color): in every reachable state no player holds two
\* property sets of the same color.
OneSetPerColor ==
  \A p \in Players :
    \A i, j \in 1..Len(gameState.players[p].properties) :
      gameState.players[p].properties[i].color = gameState.players[p].properties[j].color
        => i = j

\* C17 (a counter is played): when the responder answers with a Just Say No it
\* holds, one Just Say No leaves the responder's hand for the discard pile,
\* jsnStack grows by one and the action stays pending as it was; banks,
\* property sets, the deck, actionsRemaining, the phase and the other hand are
\* unchanged; the responder is the defender at even jsnStack, the attacker at
\* odd.
CounterPlayed ==
  LET pa == gameState.pendingAction
      r == IF pa.jsnStack % 2 = 0 THEN 1 - pa.attackerIndex ELSE pa.attackerIndex
      post == resolvePendingAction(gameState, TRUE)
      Jsn(c) == CardTable[c].name = "Just Say No"
  IN  (pa # NoPending /\ \E i \in 1..Len(gameState.players[r].hand) :
                           Jsn(gameState.players[r].hand[i]))
        => /\ Len(post.players[r].hand) = Len(gameState.players[r].hand) - 1
           /\ Len(SelectSeq(post.players[r].hand, Jsn))
                = Len(SelectSeq(gameState.players[r].hand, Jsn)) - 1
           /\ SelectSeq(post.players[r].hand, LAMBDA c : ~Jsn(c))
                = SelectSeq(gameState.players[r].hand, LAMBDA c : ~Jsn(c))
           /\ Len(post.discardPile) = Len(gameState.discardPile) + 1
           /\ SubSeq(post.discardPile, 1, Len(gameState.discardPile)) = gameState.discardPile
           /\ Jsn(post.discardPile[Len(post.discardPile)])
           /\ post.pendingAction = [pa EXCEPT !.jsnStack = pa.jsnStack + 1]
           /\ post.players[1 - r] = gameState.players[1 - r]
           /\ post.players[r].bank = gameState.players[r].bank
           /\ post.players[r].properties = gameState.players[r].properties
           /\ post.deck = gameState.deck
           /\ post.actionsRemaining = gameState.actionsRemaining
           /\ post.phase = gameState.phase
           /\ post.winner = gameState.winner
           /\ post.activePlayerIndex = gameState.activePlayerIndex

\* C17 witness: the attacker has answered the defender's counter with its own.
CounterPlayedWitness ==
  /\ gameState.pendingAction # NoPending
  /\ gameState.pendingAction.jsnStack = 2
  /\ Head(gameState.logs).k = "jsn"
  /\ Head(gameState.logs).p = gameState.pendingAction.attackerIndex
  /\ Len(gameState.discardPile) = 2

\* C18 (a blocked action): when the final response comes at odd jsnStack the
\* triggering card is added to the discard pile, pendingAction is cleared,
\* actionsRemaining drops by one, and every hand, bank and property set is as
\* it was.
BlockedFrame ==
  \A useJSN \in BOOLEAN :
    LET pa == gameState.pendingAction
        post == resolvePendingAction(gameState, useJSN)
    IN  (FinalResponse(gameState, useJSN) /\ pa.jsnStack % 2 = 1)
          => /\ post.discardPile = Append(gameState.discardPile, pa.card)
             /\ post.pendingAction = NoPending
             /\ post.actionsRemaining = gameState.actionsRemaining - 1
             /\ \A p \in Players :
                  /\ post.players[p].hand = gameState.players[p].hand
                  /\ post.players[p].bank = gameState.players[p].bank
                  /\ post.players[p].properties = gameState.players[p].properties

\* C18 witness: an action has been blocked by one counter: its card lies on
\* the discard pile over the Just Say No.
BlockedFrameWitness ==
  /\ Len(gameState.logs) >= 2
  /\ gameState.logs[1].k = "blocked"
  /\ gameState.logs[2].k = "jsn" /\ gameState.logs[2].c = 1
  /\ gameState.pendingAction = NoPending
  /\ Len(gameState.discardPile) = 2
  /\ gameState.discardPile[2] = gameState.logs[1].c

\* The cards of the sets in the order a settlement takes them: the first set
\* from its newest card down, then the next set.
RECURSIVE TopDown(_)
TopDown(properties) ==
  IF properties = <<>> THEN <<>>
  ELSE Reverse(Head(properties).cards) \o TopDown(Tail(properties))

Colors(properties) == [i \in 1..Len(properties) |-> properties[i].color]

\* C19 (order of a settlement): for every debtor and amount, bank cards go
\* before property cards and a property card only from a debtor whose bank is
\* empty; no card goes once the debt is covered; the property cards go from
\* the top of the lowest-index set down, set after set; a set emptied this
\* way is removed; the debt is reduced by the value of each card.
SettlementOrder ==
  \A from \in Players, amount \in 0..MaxAmount :
    LET to == Opponent(from)
        debtor == gameState.players[from]
        paid == processPayment(gameState.players, from, to, amount, gameState.logs)
        lines == Reverse(NewLogs(gameState, paid))
        Transfer(l) == l.k \in {"paid", "surrendered"}
        transfers == SelectSeq(lines, Transfer)
        fromBank == CardsLogged(NewLogs(gameState, paid), "paid")
        fromSets == CardsLogged(NewLogs(gameState, paid), "surrendered")
        all == [i \in 1..Len(transfers) |-> transfers[i].c]
        left == paid.players[from].properties
    IN  /\ \A i, j \in 1..Len(transfers) :
             (transfers[i].k = "surrendered" /\ transfers[j].k = "paid") => j < i
        /\ fromSets # <<>> => paid.players[from].bank = <<>>
        /\ Len(all) = ShortestPrefix(all, amount)
        /\ fromSets = SubSeq(TopDown(debtor.properties), 1, Len(fromSets))
        /\ \A i \in 1..Len(left) : Len(left[i].cards) > 0
        /\ Colors(left)
             = SubSeq(Colors(debtor.properties),
                      Len(debtor.properties) - Len(left) + 1, Len(debtor.properties))
        /\ SameCards(CardsOfSets(left) \o fromSets, CardsOfSets(debtor.properties))
        /\ paid.remaining = amount - SumValues(all)

\* C19 witness: after the bank, the newest card of the debtor's first set has
\* been taken, and the two older cards are still in it.
SettlementOrderWitness ==
  /\ Len(gameState.logs) >= 2
  /\ gameState.logs[1].k = "surrendered"
  /\ gameState.logs[2].k = "paid"
  /\ LET debtor == gameState.players[gameState.logs[1].p]
     IN  /\ debtor.bank = <<>>
         /\ debtor.properties # <<>>
         /\ Len(debtor.properties[1].cards) = 2

\* The cards a settlement adds to the creditor's bank and property sets.
BankCardsMoved(pre, post, to) == Len(post[to].bank) - Len(pre[to].bank)

SetCardsMoved(pre, post, to) ==
  Len(CardsOfSets(post[to].properties)) - Len(CardsOfSets(pre[to].properties))

\* C20 as claimed (one log entry per card): a settlement that moves k cards
\* puts exactly k entries in front of the log.
LogPerTransfer ==
  \A from \in Players, amount \in 0..MaxAmount :
    LET to == Opponent(from)
        paid == processPayment(gameState.players, from, to, amount, gameState.logs)
    IN  Len(paid.logs) - Len(gameState.logs)
          = BankCardsMoved(gameState.players, paid.players, to)
              + SetCardsMoved(gameState.players, paid.players, to)

\* C20 as amended: a settlement puts one entry in front of the log for each
\* bank card and one for each property card it moves, and one note more, right
\* after the entry of the last bank card, when the bank cards moved are worth
\* more than the amount.
LogPerTransferAndNote ==
  \A from \in Players, amount \in 0..MaxAmount :
    LET to == Opponent(from)
        paid == processPayment(gameState.players, from, to, amount, gameState.logs)
        lines == NewLogs(gameState, paid)
        k == BankCardsMoved(gameState.players, paid.players, to)
        m == SetCardsMoved(gameState.players, paid.players, to)
        bankCards == SubSeq(paid.players[to].bank,
                            Len(gameState.players[to].bank) + 1, Len(paid.players[to].bank))
        overpaid == SumValues(bankCards) > amount
    IN  /\ SubSeq(paid.logs, Len(lines) + 1, Len(paid.logs)) = gameState.logs
        /\ Len(CardsLogged(lines, "paid")) = k
        /\ Len(CardsLogged(lines, "surrendered")) = m
        /\ Len(lines) = k + m + (IF overpaid THEN 1 ELSE 0)
        /\ overpaid => /\ Head(lines).k = "nochange"
                       /\ lines[2].k = "paid"

\* C20 witness: a bank card worth more than what was left of the debt has been
\* paid, and the note follows its entry.
LogPerTransferWitness ==
  \E i \in 1..(Len(gameState.logs) - 1) :
    /\ gameState.logs[i].k = "nochange"
    /\ gameState.logs[i + 1].k = "paid"
    /\ gameState.players[gameState.logs[i + 1].p].bank = <<>>
    /\ gameState.pendingAction = NoPending

\* ------------------------------------------------------------------ transfers between players

\* The positions of the sets satisfying Test, 0 standing for a set yet to be
\* created.
SetsWhere(properties, Test(_)) == {i \in 1..Len(properties) : Test(properties[i])}

\* Where the placement rule lets a transferred card go: an incomplete set of
\* its primary color if there is one, else an incomplete set of its secondary
\* color, else any set of its primary color, else a new set.
PreferredSets(properties, c) ==
  LET primary == ColorOrAny(c)
      secondary == CardTable[c].secondaryColor
      openPrimary == SetsWhere(properties, LAMBDA p : p.color = primary /\ ~p.isComplete)
      openSecondary == SetsWhere(properties, LAMBDA p : p.color = secondary /\ ~p.isComplete)
      anyPrimary == SetsWhere(properties, LAMBDA p : p.color = primary)
  IN  IF openPrimary # {} THEN openPrimary
      ELSE IF openSecondary # {} THEN openSecondary
      ELSE IF anyPrimary # {} THEN anyPrimary
      ELSE {0}

\* The property lists the rule allows after `c` has been received.
PreferredPlaces(properties, c) ==
  {PushCard(properties, i, c, ColorOrAny(c)) : i \in PreferredSets(properties, c)}

\* C21 (placement of a transferred card): a card received by Force Deal, by
\* Sly Deal, or as a property card surrendered in a settlement joins an
\* incomplete set of its primary color if the receiver has one, else an
\* incomplete set of its secondary color, else any set of its primary color,
\* and a new set only when the receiver has no set of that color.
PreferredPlacement ==
  /\ LET pa == gameState.pendingAction
         a == pa.attackerIndex
         o == Opponent(a)
         mine == gameState.players[a].properties
         theirs == gameState.players[o].properties
         post == resolvePendingAction(gameState, FALSE)
         kinds == Kinds(NewLogs(gameState, post))
     IN  /\ (pa.type = "SLY_DEAL" /\ "stole" \in kinds)
              => post.players[a].properties
                   \in PreferredPlaces(mine, TopCard(theirs, pa.targetSetIndex + 1))
         /\ (pa.type = "FORCE_DEAL" /\ "forcedeal" \in kinds)
              => /\ post.players[a].properties
                      \in PreferredPlaces(PopTop(mine, pa.mySetIndex + 1),
                                          TopCard(theirs, pa.targetSetIndex + 1))
                 /\ post.players[o].properties
                      \in PreferredPlaces(PopTop(theirs, pa.targetSetIndex + 1),
                                          TopCard(mine, pa.mySetIndex + 1))
  /\ \A from \in Players :
       LET to == Opponent(from)
           paid == processPayment(gameState.players, from, to, 1, gameState.logs)
           surrendered == CardsLogged(NewLogs(gameState, paid), "surrendered")
       IN  Len(surrendered) = 1
             => paid.players[to].properties
                  \in PreferredPlaces(gameState.players[to].properties, surrendered[1])

\* The property list once the newest card of the set at position i is gone:
\* the set is dropped when that was its only card.
Taken(properties, i) ==
  IF Len(properties[i].cards) = 1 THEN RemoveAt(properties, i)
  ELSE [properties EXCEPT ![i].cards = SubSeq(@, 1, Len(@) - 1)]

\* `after` has every set of `before` in its place, with the same cards in
\* front, and possibly more cards or more sets behind.
Extends(before, after) ==
  /\ Len(after) >= Len(before)
  /\ \A i \in 1..Len(before) :
       /\ after[i].color = before[i].color
       /\ Len(after[i].cards) >= Len(before[i].cards)
       /\ SubSeq(after[i].cards, 1, Len(before[i].cards)) = before[i].cards

\* The cards of `after` are those of `before` less `out` plus `in`.
Exchanged(before, after, out, in) ==
  \A c \in INITIAL_DECK :
    Count(c, CardsOfSets(after))
      = Count(c, CardsOfSets(before)) - (IF c = out THEN 1 ELSE 0) + (IF c = in THEN 1 ELSE 0)

\* C22 (Force Deal swaps the two top cards): when a FORCE_DEAL naming two
\* non-empty sets executes, the newest card of the attacker's set goes to the
\* opponent's properties and the newest card of the opponent's set to the
\* attacker's, and nothing else moves: each player holds as many property
\* cards as before, hands and banks are as they were, the other cards stay in
\* their sets, and a source set emptied by the swap is gone from the list.
ForceDealSwap ==
  \A useJSN \in BOOLEAN :
    LET pa == gameState.pendingAction
        a == pa.attackerIndex
        o == Opponent(a)
        mine == gameState.players[a].properties
        theirs == gameState.players[o].properties
        post == resolvePendingAction(gameState, useJSN)
    IN  (/\ FinalResponse(gameState, useJSN)
         /\ pa.type = "FORCE_DEAL"
         /\ pa.jsnStack % 2 = 0
         /\ ~NoSuchSet(mine, pa.mySetIndex)
         /\ ~NoSuchSet(theirs, pa.targetSetIndex))
          => LET myCard == mine[pa.mySetIndex + 1].cards[Len(mine[pa.mySetIndex + 1].cards)]
                 oppCard == theirs[pa.targetSetIndex + 1].cards[Len(theirs[pa.targetSetIndex + 1].cards)]
             IN  /\ Exchanged(mine, post.players[a].properties, myCard, oppCard)
                 /\ Exchanged(theirs, post.players[o].properties, oppCard, myCard)
                 /\ Len(CardsOfSets(post.players[a].properties)) = Len(CardsOfSets(mine))
                 /\ Len(CardsOfSets(post.players[o].properties)) = Len(CardsOfSets(theirs))
                 /\ Extends(Taken(mine, pa.mySetIndex + 1), post.players[a].properties)
                 /\ Extends(Taken(theirs, pa.targetSetIndex + 1), post.players[o].properties)
                 /\ \A p \in Players :
                      /\ post.players[p].hand = gameState.players[p].hand
                      /\ post.players[p].bank = gameState.players[p].bank
                      /\ \A i \in 1..Len(post.players[p].properties) :
                           Len(post.players[p].properties[i].cards) > 0

\* C22 witness: a Force Deal has swapped the only card of the attacker's set
\* for a card of the opponent: each now holds the other's card, and the
\* attacker's list is no longer than it was.
ForceDealSwapWitness ==
  /\ Head(gameState.logs).k = "forcedeal"
  /\ gameState.pendingAction = NoPending
  /\ LET a == Head(gameState.logs).p
         given == Head(gameState.logs).c
         got == Head(gameState.logs).d
     IN  /\ Count(given, CardsOfSets(gameState.players[Opponent(a)].properties)) = 1
         /\ Count(got, CardsOfSets(gameState.players[a].properties)) = 1
         /\ Len(gameState.players[a].properties) = 1
         /\ CardTable[given].color # CardTable[got].color

\* C23 (Deal Breaker takes the first complete set): when a DEAL_BREAKER
\* executes, the opponent's first set flagged complete leaves the opponent's
\* list and is appended, cards and flag as they were, to the attacker's list,
\* every other set of both players staying as it was; when the opponent has no
\* complete set no property changes.  Either way the card is discarded, one
\* action is consumed, and hands and banks are as they were.
DealBreakerTakesFirstComplete ==
  \A useJSN \in BOOLEAN :
    LET pa == gameState.pendingAction
        a == pa.attackerIndex
        o == Opponent(a)
        mine == gameState.players[a].properties
        theirs == gameState.players[o].properties
        complete == {i \in 1..Len(theirs) : theirs[i].isComplete}
        post == resolvePendingAction(gameState, useJSN)
    IN  (/\ FinalResponse(gameState, useJSN)
         /\ pa.type = "DEAL_BREAKER"
         /\ pa.jsnStack % 2 = 0)
          => /\ complete # {}
                  => LET first == CHOOSE i \in complete : \A j \in complete : i <= j
                     IN  /\ post.players[o].properties = RemoveAt(theirs, first)
                         /\ post.players[a].properties = Append(mine, theirs[first])
                         /\ post.players[a].properties[Len(mine) + 1].isComplete
             /\ complete = {}
                  => /\ post.players[o].properties = theirs
                     /\ post.players[a].properties = mine
             /\ post.discardPile = Append(gameState.discardPile, pa.card)
             /\ post.actionsRemaining = gameState.actionsRemaining - 1
             /\ post.pendingAction = NoPending
             /\ \A p \in Players :
                  /\ post.players[p].hand = gameState.players[p].hand
                  /\ post.players[p].bank = gameState.players[p].bank

\* C23 witness: a Deal Breaker has taken a complete set past an incomplete
\* one: the set is the last of the attacker's list, and the opponent keeps a
\* set.
DealBreakerWitness ==
  /\ Head(gameState.logs).k = "dealbreaker"
  /\ gameState.pendingAction = NoPending
  /\ LET a == Head(gameState.logs).p
         mine == gameState.players[a].properties
         theirs == gameState.players[Opponent(a)].properties
     IN  /\ mine[Len(mine)].isComplete
         /\ Head(mine[Len(mine)].cards) = Head(gameState.logs).c
         /\ Len(theirs) = 2
         /\ ~theirs[1].isComplete
         /\ theirs[2].isComplete
         /\ gameState.discardPile[Len(gameState.discardPile)] = 4

\* A Deal Breaker has been executed against an opponent without a complete
\* set: the card is discarded and nothing is logged for it.
DealBreakerNoTarget ==
  /\ gameState.pendingAction = NoPending
  /\ gameState.discardPile # <<>>
  /\ gameState.discardPile[Len(gameState.discardPile)] = 4
  /\ Kinds(gameState.logs) \cap {"dealbreaker", "blocked"} = {}

\* C24 (Debt Collector and Birthday): when a DEBT_COLLECTOR (a BIRTHDAY)
\* executes, the players are left as a settlement of exactly 5 (of 2) from
\* the attacker's opponent to the attacker leaves them, whoever is to move:
\* every card that moves leaves the opponent for the attacker, the cards moved
\* are the fewest that cover the amount (all the opponent owns when that is
\* less), and the hands stay as they were.
FixedDebtSettled ==
  \A useJSN \in BOOLEAN :
    LET pa == gameState.pendingAction
        a == pa.attackerIndex
        o == 1 - a
        amount == IF pa.type = "DEBT_COLLECTOR" THEN 5 ELSE 2
        post == resolvePendingAction(gameState, useJSN)
        lines == NewLogs(gameState, post)
        moved == SelectSeq(Reverse(lines), LAMBDA l : l.k \in {"paid", "surrendered"})
        cards == [i \in 1..Len(moved) |-> moved[i].c]
        gained == Assets(post.players[a]) - Assets(gameState.players[a])
    IN  (/\ FinalResponse(gameState, useJSN)
         /\ pa.type \in {"DEBT_COLLECTOR", "BIRTHDAY"}
         /\ pa.jsnStack % 2 = 0)
          => /\ post.players
                  = processPayment(gameState.players, o, a, amount, gameState.logs).players
             /\ \A i \in 1..Len(moved) : moved[i].p = o
             /\ gained = SumValues(cards)
             /\ Assets(post.players[o]) = Assets(gameState.players[o]) - gained
             /\ gained >= Min(amount, Assets(gameState.players[o]))
             /\ Len(cards) = ShortestPrefix(cards, amount)
             /\ \A p \in Players : post.players[p].hand = gameState.players[p].hand

\* C24 witness: a Debt Collector played by one player has been settled while
\* the other player was the one to move, and the player to move has paid.
FixedDebtWitness ==
  /\ gameState.pendingAction = NoPending
  /\ Len(gameState.logs) >= 2
  /\ Head(gameState.logs).k \in {"paid", "surrendered", "nochange"}
  /\ Head(gameState.logs).p = gameState.activePlayerIndex
  /\ \E i \in 2..Len(gameState.logs) :
       /\ gameState.logs[i].k = "debtcollector"
       /\ gameState.logs[i].p = Opponent(gameState.activePlayerIndex)
       /\ \A j \in 1..(i - 1) : gameState.logs[j].k \in {"paid", "surrendered", "nochange"}

\* C25 (the win check after a contested action): when the effect of a pending
\* action executes in a game without a winner, the attacker is named winner
\* exactly when the attacker then holds three complete sets, and the defender
\* is not named winner by that step.
WinCheckedForAttacker ==
  \A useJSN \in BOOLEAN :
    LET pa == gameState.pendingAction
        a == pa.attackerIndex
        post == resolvePendingAction(gameState, useJSN)
    IN  (/\ FinalResponse(gameState, useJSN)
         /\ pa.jsnStack % 2 = 0
         /\ gameState.winner = NoIndex)
          => /\ (post.winner = a) <=> (FullSets(post.players[a].properties) >= 3)
             /\ post.winner # Opponent(a)

\* ------------------------------------------------------------------ turns

\* C26 (startTurn): in a phase other than START_TURN startTurn changes
\* nothing; in START_TURN it moves the first min(n, deck size) cards of the
\* deck, in order, to the end of the active player's hand, n being 5 for an
\* empty hand and 2 otherwise, sets actionsRemaining to 3 and the phase to
\* PLAY_PHASE, adds to the log, and leaves everything else as it was.
StartTurnDraws ==
  LET post == startTurn(gameState)
      p == gameState.activePlayerIndex
      hand == gameState.players[p].hand
      n == IF hand = <<>> THEN 5 ELSE 2
      k == Min(n, Len(gameState.deck))
  IN  /\ gameState.phase # "START_TURN" => post = gameState
      /\ gameState.phase = "START_TURN"
           => /\ post.players[p].hand = hand \o SubSeq(gameState.deck, 1, k)
              /\ post.deck = SubSeq(gameState.deck, k + 1, Len(gameState.deck))
              /\ post.actionsRemaining = 3
              /\ post.phase = "PLAY_PHASE"
              /\ SubSeq(post.logs, Len(post.logs) - Len(gameState.logs) + 1, Len(post.logs))
                   = gameState.logs
              /\ [post EXCEPT !.logs = gameState.logs]
                   = [gameState EXCEPT !.players[p].hand = post.players[p].hand,
                                       !.deck = post.deck,
                                       !.actionsRemaining = 3,
                                       !.phase = "PLAY_PHASE"]

\* C26 witness: a player with an empty hand has started a turn on a deck of
\* three cards, and holds those three.
StartTurnWitness ==
  /\ Head(gameState.logs).k = "draws"
  /\ Head(gameState.logs).c = 5
  /\ gameState.phase = "PLAY_PHASE"
  /\ gameState.deck = <<>>
  /\ Len(gameState.players[gameState.activePlayerIndex].hand) = 3

\* What endTurn does to the GameState in PLAY_PHASE: the other player is to
\* move, with three actions, in START_TURN; the players, the deck, the discard
\* pile, the winner and the pending action are as they were.
TurnPassed ==
  /\ gameState'.activePlayerIndex = 1 - gameState.activePlayerIndex
  /\ gameState'.actionsRemaining = 3
  /\ gameState'.phase = "START_TURN"
  /\ gameState'.players = gameState.players
  /\ gameState'.deck = gameState.deck
  /\ gameState'.discardPile = gameState.discardPile
  /\ gameState'.winner = gameState.winner
  /\ gameState'.pendingAction = gameState.pendingAction

SelectionCleared ==
  /\ pendingRentCard' = NoCard
  /\ pendingForceDeal' = NoForceDeal
  /\ pendingSlyDeal' = NoCard

\* C27 as claimed (endTurn): in PLAY_PHASE endTurn passes the turn and clears
\* the rent / Force Deal / Sly Deal selection, leaving hands, banks,
\* properties, deck and discard pile as they were; in any other phase it
\* changes nothing at all.
EndTurnNoOpElsewhere ==
  [][EndTurn => IF gameState.phase = "PLAY_PHASE"
                THEN TurnPassed /\ SelectionCleared
                ELSE UNCHANGED <<gameState, pendingRentCard, pendingForceDeal,
                                 pendingSlyDeal>>]_vars

\* C27 as amended: in PLAY_PHASE endTurn passes the turn, leaving hands,
\* banks, properties, deck and discard pile as they were; in any other phase
\* it leaves the GameState as it was; in every phase it clears the rent /
\* Force Deal / Sly Deal selection.
EndTurnClearsSelection ==
  [][EndTurn => /\ IF gameState.phase = "PLAY_PHASE"
                   THEN TurnPassed
                   ELSE gameState' = gameState
                /\ SelectionCleared]_vars

\* C27 witness: the turn has been ended on a Rent card that was waiting for
\* its set: the other player is to start, no selection is left, and the Rent
\* card is in no hand and on no pile.
EndTurnWitness ==
  /\ Head(gameState.logs).k = "turnchange"
  /\ gameState.phase = "START_TURN"
  /\ gameState.pendingAction = NoPending
  /\ pendingRentCard = NoCard /\ pendingForceDeal = NoForceDeal /\ pendingSlyDeal = NoCard
  /\ Count(12, Held(gameState)) = 0
  /\ \A c \in INITIAL_DECK \ {12} : Count(c, Held(gameState)) = 1

\* A selection is under way in a finished game, where endTurn can still be
\* called.
SelectionAfterGameOver ==
  /\ gameState.phase = "GAME_OVER"
  /\ pendingRentCard # NoCard \/ pendingForceDeal # NoForceDeal \/ pendingSlyDeal # NoCard
  /\ LogOpen

\* The change of phase a step makes, as a pair.
PhaseEdge == <<gameState.phase, gameState'.phase>>

PhaseChanges == gameState'.phase # gameState.phase

ActiveChanges == gameState'.activePlayerIndex # gameState.activePlayerIndex

\* C28 as claimed (phases): the phase changes only along LOBBY -> START_TURN
\* -> PLAY_PHASE -> END_TURN -> START_TURN or into GAME_OVER, and a change of
\* the active player goes through the END_TURN phase.
PhaseEdgesViaEndTurn ==
  [][/\ PhaseChanges
          => \/ PhaseEdge \in {<<"LOBBY", "START_TURN">>, <<"START_TURN", "PLAY_PHASE">>,
                               <<"PLAY_PHASE", "END_TURN">>, <<"END_TURN", "START_TURN">>}
             \/ gameState'.phase = "GAME_OVER"
     /\ ActiveChanges
          => gameState.phase = "END_TURN" \/ gameState'.phase = "END_TURN"]_vars

\* C28 as amended: the phase of a game is START_TURN, PLAY_PHASE or
\* GAME_OVER; it changes only from START_TURN to PLAY_PHASE, from PLAY_PHASE
\* to START_TURN, or from either into GAME_OVER, which it never leaves; the
\* active player changes in exactly the steps from PLAY_PHASE to START_TURN.
PhaseEdgesDirect ==
  /\ [](gameState.phase \in {"START_TURN", "PLAY_PHASE", "GAME_OVER"})
  /\ [][/\ PhaseChanges
             => PhaseEdge \in {<<"START_TURN", "PLAY_PHASE">>, <<"PLAY_PHASE", "START_TURN">>,
                               <<"START_TURN", "GAME_OVER">>, <<"PLAY_PHASE", "GAME_OVER">>}
        /\ ActiveChanges <=> PhaseEdge = <<"PLAY_PHASE", "START_TURN">>]_vars

\* C28 witness: the second turn of a game is being played: the turn changed,
\* and the next player has drawn.
PhaseEdgesWitness ==
  /\ Len(gameState.logs) >= 4
  /\ gameState.logs[1].k = "draws"
  /\ gameState.logs[2].k = "turnchange"
  /\ gameState.logs[1].p = gameState.logs[2].p
  /\ gameState.phase = "PLAY_PHASE"
  /\ gameState.activePlayerIndex = gameState.logs[1].p

\* ------------------------------------------------------------------ rent

\* C29 (the rent of a set): when rent is collected on a set of color c holding
\* n >= 1 cards, the amount logged and settled from the opponent to the player
\* to move is entry min(n, length of the schedule) of RENT_VALUES[c]; it is at
\* most the last entry of the schedule, and 0 for the pseudo-color ANY.
RentBySchedule ==
  /\ \A setIndex \in 0..MaxSetIndex :
       LET p == gameState.activePlayerIndex
           sets == gameState.players[p].properties
       IN  (/\ pendingRentCard # NoCard
            /\ HasSet(sets, setIndex)
            /\ Len(sets[setIndex + 1].cards) >= 1)
             => LET set == sets[setIndex + 1]
                    schedule == RENT_VALUES(set.color)
                    due == schedule[Min(Len(set.cards), Len(schedule))]
                    post == handleRentCollection(gameState, pendingRentCard, setIndex)
                    lines == NewLogs(gameState, post)
                IN  /\ lines[Len(lines)] = Log("rent", p, due, 0)
                    /\ post.players
                         = processPayment(gameState.players, 1 - p, p, due,
                                          gameState.logs).players
                    /\ due <= schedule[Len(schedule)]
  /\ \A n \in 1..4 :
       rentVal([color |-> "ANY", cards |-> [i \in 1..n |-> 1], isComplete |-> FALSE]) = 0

\* C29 witness: rent has been collected on a Dark Blue set of three cards, one
\* more than its schedule has entries, for the 8M of a set of two.
RentByScheduleWitness ==
  /\ pendingRentCard = NoCard
  /\ gameState.discardPile # <<>>
  /\ CardTable[gameState.discardPile[Len(gameState.discardPile)]].type = "RENT"
  /\ \E i \in 1..Len(gameState.logs) :
       /\ gameState.logs[i].k = "rent"
       /\ gameState.logs[i].c = 8
       /\ gameState.logs[i].p = gameState.activePlayerIndex
  /\ \E j \in 1..Len(gameState.players[gameState.activePlayerIndex].properties) :
       LET set == gameState.players[gameState.activePlayerIndex].properties[j]
       IN  set.color = "DARK_BLUE" /\ Len(set.cards) = 3

\* C30 (a Rent card costs its action when the set is chosen): playing a RENT
\* card by ACTION_PLAY takes the card from the hand into the rent selection
\* and leaves actionsRemaining, the discard pile and the rest of the GameState
\* as they were; choosing the set then puts the card on the discard pile and
\* takes exactly one action.
RentCostsOneAction ==
  /\ \A cardId \in INITIAL_DECK :
       (/\ CardTable[cardId].type = "RENT"
        /\ InActiveHand(gameState, cardId)
        /\ gameState.phase = "PLAY_PHASE"
        /\ gameState.actionsRemaining > 0
        /\ gameState.winner = NoIndex
        /\ gameState.pendingAction = NoPending)
         => \A o \in executeMove(gameState, pendingRentCard, pendingForceDeal,
                                 pendingSlyDeal, "ACTION_PLAY", cardId) :
              LET p == gameState.activePlayerIndex
                  Other(c) == c # cardId
              IN  /\ o.pendingRentCard = cardId
                  /\ o.gameState.actionsRemaining = gameState.actionsRemaining
                  /\ o.gameState.discardPile = gameState.discardPile
                  /\ o.gameState.players[p].hand = SelectSeq(gameState.players[p].hand, Other)
                  /\ [o.gameState EXCEPT !.players[p].hand = gameState.players[p].hand]
                       = gameState
  /\ \A setIndex \in 0..MaxSetIndex :
       (/\ pendingRentCard # NoCard
        /\ HasSet(gameState.players[gameState.activePlayerIndex].properties, setIndex))
         => LET post == handleRentCollection(gameState, pendingRentCard, setIndex)
            IN  /\ post.actionsRemaining = gameState.actionsRemaining - 1
                /\ post.discardPile = Append(gameState.discardPile, pendingRentCard)

\* C30 witness: a Rent card was the first card played in a turn and has
\* collected its rent: it lies on the discard pile, and two of the three
\* actions are left.
RentCostsOneActionWitness ==
  /\ pendingRentCard = NoCard
  /\ gameState.phase = "PLAY_PHASE"
  /\ gameState.actionsRemaining = 2
  /\ gameState.discardPile = <<12>>
  /\ \E i \in 1..(Len(gameState.logs) - 1) :
       /\ gameState.logs[i].k = "rent"
       /\ gameState.logs[i + 1].k = "draws"

\* ------------------------------------------------------------------ playing an action card

\* The move is let through by executeMove's first test and names a card of
\* the hand of the player to move.
Playable(cardId) ==
  /\ gameState.phase = "PLAY_PHASE"
  /\ gameState.actionsRemaining > 0
  /\ gameState.winner = NoIndex
  /\ gameState.pendingAction = NoPending
  /\ \E i \in 1..Len(gameState.players[gameState.activePlayerIndex].hand) :
       gameState.players[gameState.activePlayerIndex].hand[i] = cardId

\* The hand without the card.
Without(hand, cardId) == SelectSeq(hand, LAMBDA c : c # cardId)

\* C31 (targets of an automated Force Deal or Sly Deal): when an automated
\* player plays Force Deal or Sly Deal, a PendingAction it creates names only
\* sets that are incomplete and non-empty in the state the card is played in
\* (one of its own and one of the opponent's for Force Deal, one of the
\* opponent's for Sly Deal); when there is no such choice, no PendingAction is
\* created, the card goes to the discard pile and one action is consumed.
AiTargetsEligible ==
  \A cardId \in INITIAL_DECK :
    LET p == gameState.activePlayerIndex
        mine == gameState.players[p].properties
        theirs == gameState.players[1 - p].properties
        Open(sets) == {i \in 0..(Len(sets) - 1) :
                         ~sets[i + 1].isComplete /\ Len(sets[i + 1].cards) > 0}
        force == CardTable[cardId].name = "Force Deal"
        choice == Open(theirs) # {} /\ (force => Open(mine) # {})
        outs == executeMove(gameState, pendingRentCard, pendingForceDeal,
                            pendingSlyDeal, "ACTION_PLAY", cardId)
    IN  (/\ Playable(cardId)
         /\ gameState.players[p].isAI
         /\ CardTable[cardId].name \in {"Force Deal", "Sly Deal"})
          => \A o \in outs :
               LET post == o.gameState
                   pa == post.pendingAction
               IN  /\ post.players[p].hand = Without(gameState.players[p].hand, cardId)
                   /\ o.pendingRentCard = pendingRentCard
                   /\ o.pendingForceDeal = pendingForceDeal
                   /\ o.pendingSlyDeal = pendingSlyDeal
                   /\ choice
                        => /\ pa.type = (IF force THEN "FORCE_DEAL" ELSE "SLY_DEAL")
                           /\ pa.card = cardId
                           /\ pa.attackerIndex = p
                           /\ pa.jsnStack = 0
                           /\ pa.targetSetIndex \in Open(theirs)
                           /\ force => pa.mySetIndex \in Open(mine)
                           /\ post.discardPile = gameState.discardPile
                           /\ post.actionsRemaining = gameState.actionsRemaining
                   /\ ~choice
                        => /\ pa = NoPending
                           /\ post.discardPile = Append(gameState.discardPile, cardId)
                           /\ post.actionsRemaining = gameState.actionsRemaining - 1

\* C31 witness: the automated player has played Sly Deal against an opponent
\* with no set to steal from: the card is on the discard pile, an action is
\* gone, and nothing is pending.
AiWastedWitness ==
  /\ Head(gameState.logs).k = "aisdwasted"
  /\ gameState.players[gameState.activePlayerIndex].isAI
  /\ gameState.pendingAction = NoPending
  /\ gameState.actionsRemaining = 2
  /\ gameState.discardPile = <<5>>

\* C32 (Deal Breaker, Debt Collector, It's My Birthday are played into a
\* pending action): the play takes the card out of the hand of the player to
\* move and creates a PendingAction of the card's type, carrying the card,
\* with that player as attacker and jsnStack 0; no action is consumed, and
\* the banks, the property sets, the other hand, the deck, the discard pile
\* and the selections are as they were: the effect waits for the resolution.
ContestedPlayOpensPending ==
  \A cardId \in INITIAL_DECK :
    LET p == gameState.activePlayerIndex
        name == CardTable[cardId].name
        type == IF name = "Deal Breaker" THEN "DEAL_BREAKER"
                ELSE IF name = "Debt Collector" THEN "DEBT_COLLECTOR"
                ELSE "BIRTHDAY"
        outs == executeMove(gameState, pendingRentCard, pendingForceDeal,
                            pendingSlyDeal, "ACTION_PLAY", cardId)
    IN  (/\ Playable(cardId)
         /\ name \in {"Deal Breaker", "Debt Collector", "It's My Birthday"})
          => /\ Cardinality(outs) = 1
             /\ \A o \in outs :
                  LET post == o.gameState
                      pa == post.pendingAction
                  IN  /\ post.players[p].hand = Without(gameState.players[p].hand, cardId)
                      /\ pa.type = type
                      /\ pa.card = cardId
                      /\ pa.attackerIndex = p
                      /\ pa.jsnStack = 0
                      /\ post.actionsRemaining = gameState.actionsRemaining
                      /\ post.players[1 - p] = gameState.players[1 - p]
                      /\ post.players[p].bank = gameState.players[p].bank
                      /\ post.players[p].properties = gameState.players[p].properties
                      /\ post.deck = gameState.deck
                      /\ post.discardPile = gameState.discardPile
                      /\ post.logs = gameState.logs
                      /\ o.pendingRentCard = pendingRentCard
                      /\ o.pendingForceDeal = pendingForceDeal
                      /\ o.pendingSlyDeal = pendingSlyDeal

\* C32 witness: Debt Collector has just been played as the first card of a
\* turn and waits for the opponent's answer.
ContestedPlayWitness ==
  /\ gameState.pendingAction.type = "DEBT_COLLECTOR"
  /\ gameState.pendingAction.jsnStack = 0
  /\ gameState.pendingAction.attackerIndex = gameState.activePlayerIndex
  /\ gameState.phase = "PLAY_PHASE"
  /\ gameState.actionsRemaining = 3
  /\ gameState.discardPile = <<>>
  /\ Head(gameState.logs).k = "draws"

\* C33 (the other action cards resolve at once): an ACTION card that is none
\* of Force Deal, Sly Deal, Deal Breaker, Debt Collector, It's My Birthday,
\* played by ACTION_PLAY, leaves the hand for the end of the discard pile and
\* costs one action; no pending action is created. Pass Go moves min(2, deck
\* size) cards from the front of the deck to the end of the hand; any other
\* such card leaves the deck alone. Banks, property sets, the other player
\* and the selections are as they were.
OtherActionImmediate ==
  \A cardId \in INITIAL_DECK :
    LET p == gameState.activePlayerIndex
        name == CardTable[cardId].name
        n == IF name = "Pass Go" THEN Min(2, Len(gameState.deck)) ELSE 0
        outs == executeMove(gameState, pendingRentCard, pendingForceDeal,
                            pendingSlyDeal, "ACTION_PLAY", cardId)
    IN  (/\ Playable(cardId)
         /\ CardTable[cardId].type = "ACTION"
         /\ name \notin {"Force Deal", "Sly Deal", "Deal Breaker",
                         "Debt Collector", "It's My Birthday"})
          => /\ Cardinality(outs) = 1
             /\ \A o \in outs :
                  LET post == o.gameState
                  IN  /\ post.players[p].hand =
                           Without(gameState.players[p].hand, cardId)
                             \o SubSeq(gameState.deck, 1, n)
                      /\ post.deck = SubSeq(gameState.deck, n + 1, Len(gameState.deck))
                      /\ post.discardPile = Append(gameState.discardPile, cardId)
                      /\ post.actionsRemaining = gameState.actionsRemaining - 1
                      /\ post.pendingAction = NoPending
                      /\ post.players[1 - p] = gameState.players[1 - p]
                      /\ post.players[p].bank = gameState.players[p].bank
                      /\ post.players[p].properties = gameState.players[p].properties
                      /\ o.pendingRentCard = pendingRentCard
                      /\ o.pendingForceDeal = pendingForceDeal
                      /\ o.pendingSlyDeal = pendingSlyDeal

\* C33 witness: Pass Go has been played on an empty deck and drew nothing.
PassGoShortDeckWitness ==
  /\ Head(gameState.logs).k = "passgo"
  /\ gameState.deck = <<>>
  /\ gameState.pendingAction = NoPending
  /\ gameState.actionsRemaining = 2
  /\ gameState.players[gameState.activePlayerIndex].hand = <<12, 9>>
  /\ gameState.discardPile = <<5, 10, 6, 8, 4, 22, 11>>

\* C34 (the PROPERTY move): executeMove(PROPERTY, c) with a card that is
\* neither a PROPERTY nor a WILD leaves everything as it was. With a PROPERTY
\* or WILD card it takes the card from the hand of the player to move and
\* puts it last in that player's first set of the card's color (ANY for a card
\* without color), a set of that color being added at the end when the player
\* has none; the set is complete exactly when it holds at least SET_LIMITS of
\* its color; one action is consumed; the other sets, the bank, the other
\* player, the deck and the discard pile are as they were.
PropertyMove ==
  \A cardId \in INITIAL_DECK :
    LET p == gameState.activePlayerIndex
        before == gameState.players[p].properties
        color == IF CardTable[cardId].color = "NONE" THEN "ANY"
                 ELSE CardTable[cardId].color
        has == \E i \in 1..Len(before) : before[i].color = color
        at == IF has
              THEN CHOOSE i \in 1..Len(before) :
                     /\ before[i].color = color
                     /\ \A j \in 1..(i - 1) : before[j].color # color
              ELSE Len(before) + 1
        outs == executeMove(gameState, pendingRentCard, pendingForceDeal,
                            pendingSlyDeal, "PROPERTY", cardId)
    IN  Playable(cardId)
          => IF CardTable[cardId].type \notin {"PROPERTY", "WILD"}
             THEN outs = {Outcome(gameState, pendingRentCard, pendingForceDeal,
                                  pendingSlyDeal)}
             ELSE /\ Cardinality(outs) = 1
                  /\ \A o \in outs :
                       LET post == o.gameState
                           after == post.players[p].properties
                       IN  /\ post.players[p].hand =
                                Without(gameState.players[p].hand, cardId)
                           /\ Len(after) = IF has THEN Len(before) ELSE Len(before) + 1
                           /\ \A i \in 1..Len(before) : i # at => after[i] = before[i]
                           /\ after[at].color = color
                           /\ after[at].cards =
                                (IF has THEN before[at].cards ELSE <<>>) \o <<cardId>>
                           /\ after[at].isComplete =
                                (Len(after[at].cards) >= SET_LIMITS(color))
                           /\ post.actionsRemaining = gameState.actionsRemaining - 1
                           /\ post.players[p].bank = gameState.players[p].bank
                           /\ post.players[1 - p] = gameState.players[1 - p]
                           /\ post.deck = gameState.deck
                           /\ post.discardPile = gameState.discardPile
                           /\ post.pendingAction = gameState.pendingAction
                           /\ o.pendingRentCard = pendingRentCard
                           /\ o.pendingForceDeal = pendingForceDeal
                           /\ o.pendingSlyDeal = pendingSlyDeal

\* C34 witness: the second Old Kent Road has just been deployed next to the
\* first and completes the Brown set.
PropertyMoveWitness ==
  /\ Head(gameState.logs).k = "deployed"
  /\ gameState.actionsRemaining = 2
  /\ \E i \in 1..Len(gameState.players[gameState.activePlayerIndex].properties) :
       LET set == gameState.players[gameState.activePlayerIndex].properties[i]
       IN  /\ set.color = "BROWN"
           /\ Len(set.cards) = 2
           /\ set.cards[2] = Head(gameState.logs).c
           /\ set.isComplete

\* ------------------------------------------------------------------ cards in flight

\* The cards held outside the five kinds of container: the card of the
\* pending action and the cards of the three selections.
InFlight ==
  (IF gameState.pendingAction # NoPending THEN <<gameState.pendingAction.card>> ELSE <<>>)
    \o (IF pendingRentCard # NoCard THEN <<pendingRentCard>> ELSE <<>>)
    \o (IF pendingForceDeal # NoForceDeal THEN <<pendingForceDeal.card>> ELSE <<>>)
    \o (IF pendingSlyDeal # NoCard THEN <<pendingSlyDeal>> ELSE <<>>)

\* C35 (No duplication): in every reachable state each card is at most once in
\* the deck, the discard pile, the hands, the banks, the property sets, the
\* pending action and the rent, Force Deal and Sly Deal selections taken
\* together; a cancelled selection does not leave a second copy.
NoDuplication ==
  \A c \in INITIAL_DECK : Count(c, Held(gameState) \o InFlight) <= 1

\* C35 witness: the Rent card of the first deal was played and the selection
\* cancelled; the card is back in the hand, as its last card, and nowhere else.
NoDuplicationWitness ==
  /\ AtRest
  /\ gameState.players[0].hand = <<13, 15, 9, 7, 1, 11, 12>>
  /\ gameState.actionsRemaining = 3
  /\ Count(12, Held(gameState) \o InFlight) = 1

\* C36 (a pending action belongs to the turn that played it): whenever a
\* pending action exists the phase is PLAY_PHASE, its attacker is the player
\* to move and at least one action remains.
PendingWithinTurn ==
  gameState.pendingAction # NoPending
    => /\ gameState.phase = "PLAY_PHASE"
       /\ gameState.pendingAction.attackerIndex = gameState.activePlayerIndex
       /\ gameState.actionsRemaining >= 1

\* ------------------------------------------------------------------ the Just Say No chain

\* The Just Say No cards of the game (constants.tsx 27: three).
JsnCards == {c \in INITIAL_DECK : CardTable[c].name = "Just Say No"}

JsnIn(cards) == Cardinality({i \in 1..Len(cards) : cards[i] \in JsnCards})

JsnInHands(state) == JsnIn(state.players[0].hand) + JsnIn(state.players[1].hand)

\* C37 (the chain of counters is bounded): jsnStack never exceeds the number
\* of Just Say No cards of the game, three, nor the number of them in the
\* discard pile; and every answer to a pending action either clears it or
\* raises jsnStack by one while one Just Say No leaves the hands for the
\* discard pile. An action is therefore cleared by its fourth answer at the
\* latest.
JsnChainBounded ==
  /\ [](/\ Cardinality(JsnCards) = 3
        /\ gameState.pendingAction.jsnStack <= Cardinality(JsnCards)
        /\ gameState.pendingAction.jsnStack <= JsnIn(gameState.discardPile))
  /\ [][(ResolvePendingAction /\ gameState.pendingAction # NoPending)
          => \/ gameState'.pendingAction = NoPending
             \/ /\ gameState'.pendingAction =
                     [gameState.pendingAction EXCEPT !.jsnStack = @ + 1]
                /\ JsnInHands(gameState') = JsnInHands(gameState) - 1
                /\ JsnIn(gameState'.discardPile) = JsnIn(gameState.discardPile) + 1]_vars

\* C37 witness: three Just Say No were played on one action, and the fourth
\* answer cleared it as blocked.
JsnChainWitness ==
  /\ gameState.pendingAction = NoPending
  /\ Len(gameState.logs) >= 4
  /\ gameState.logs[1].k = "blocked"
  /\ gameState.logs[2].k = "jsn" /\ gameState.logs[2].c = 3
  /\ gameState.logs[3].k = "jsn" /\ gameState.logs[3].c = 2
  /\ gameState.logs[4].k = "jsn" /\ gameState.logs[4].c = 1
  /\ JsnInHands(gameState) = 0
  /\ JsnIn(gameState.discardPile) = 3

\* ------------------------------------------------------------------ cards that are not actions

\* C38 (ACTION_PLAY of a card that is no action): executeMove(ACTION_PLAY, c)
\* with a MONEY, PROPERTY or WILD card leaves the state as it was: the card
\* stays in the hand, nothing is discarded and no action is consumed.
NonActionPlayIgnored ==
  \A cardId \in INITIAL_DECK :
    (/\ Playable(cardId)
     /\ CardTable[cardId].type \in {"MONEY", "PROPERTY", "WILD"})
      => executeMove(gameState, pendingRentCard, pendingForceDeal,
                     pendingSlyDeal, "ACTION_PLAY", cardId)
           = {Outcome(gameState, pendingRentCard, pendingForceDeal, pendingSlyDeal)}

\* ------------------------------------------------------------------ selections at the end of a turn

\* The cards of the three selections.
Selected ==
  (IF pendingRentCard # NoCard THEN {pendingRentCard} ELSE {})
    \cup (IF pendingForceDeal # NoForceDeal THEN {pendingForceDeal.card} ELSE {})
    \cup (IF pendingSlyDeal # NoCard THEN {pendingSlyDeal} ELSE {})

\* C39 (a selection is settled within its turn): the card taken from the hand
\* for a rent, Force Deal or Sly Deal selection has been discarded, put in a
\* pending action or returned to a hand by the end of the turn: after endTurn
\* every card that was in a selection is in a container or is the card of
\* the pending action.
SelectionSettledByEndTurn ==
  [][EndTurn
       => \A c \in Selected :
            \/ Count(c, Held(gameState')) >= 1
            \/ gameState'.pendingAction.card = c]_vars

\* ------------------------------------------------------------------ the end of the game

\* The sets of a player that are flagged complete and hold at least
\* SET_LIMITS of their color.
CompleteSets(player) ==
  {i \in 1..Len(player.properties) :
     /\ player.properties[i].isComplete
     /\ Len(player.properties[i].cards) >= SET_LIMITS(player.properties[i].color)}

\* C40 (winner and GAME_OVER go together): in every reachable state there is
\* a winner exactly when the phase is GAME_OVER, and a step that names a
\* winner leaves that player with at least three complete property sets.
WinnerWithGameOver ==
  /\ []((gameState.winner # NoIndex) <=> (gameState.phase = "GAME_OVER"))
  /\ [][(gameState.winner = NoIndex /\ gameState'.winner # NoIndex)
          => Cardinality(CompleteSets(gameState'.players[gameState'.winner])) >= 3]_vars

\* C40 witness: the game is over on the third complete set of the player who
\* deployed the second Old Kent Road.
WinnerWitness ==
  /\ gameState.winner = 0
  /\ gameState.phase = "GAME_OVER"
  /\ Head(gameState.logs).k = "deployed"
  /\ Cardinality(CompleteSets(gameState.players[0])) = 3

\* ------------------------------------------------------------------ the automated player

\* The proposed moves one runAI reads are at most this many.
MaxMoves == 2

\* AiStartAllowed without the test of aiProcessingRef
AiStartAllowed_NoGuard(state, processing) ==
  /\ state.players[state.activePlayerIndex].isAI
  /\ state.phase = "PLAY_PHASE"
  /\ state.winner = NoIndex
  /\ state.pendingAction = NoPending

\* AI Logic Loop 593-600: the condition under which the effect calls runAI
AiStartAllowed(state, processing) ==
  /\ state.players[state.activePlayerIndex].isAI
  /\ state.phase = "PLAY_PHASE"
  /\ ~processing
  /\ state.winner = NoIndex
  /\ state.pendingAction = NoPending

\* runAI 609: the loop over the proposed moves stops here
AiBreaks(state) ==
  state.actionsRemaining <= 0 \/ state.winner # NoIndex \/ state.pendingAction # NoPending

\* AiFinally without the call of endTurn
AiFinally_NoEndTurn(state, rent, forceDeal, slyDeal) ==
  Outcome(state, rent, forceDeal, slyDeal)

\* runAI 621-625: the finally block calls endTurn() unless there is a winner
\* or a pending action
AiFinally(state, rent, forceDeal, slyDeal) ==
  IF state.winner = NoIndex /\ state.pendingAction = NoPending
  THEN Outcome(endTurn(state), NoCard, NoForceDeal, NoCard)
  ELSE Outcome(state, rent, forceDeal, slyDeal)

\* The effect runs after a render that left its condition true: runAI sets
\* aiProcessingRef and asks for the moves.
AiStart ==
  /\ AiStartAllowed(gameState, aiProcessing)
  /\ aiProcessing' = TRUE
  /\ aiLoop' = [pc |-> "awaiting", left |-> 0]
  /\ aiLoops' = aiLoops + 1
  /\ UNCHANGED <<gameState, pendingRentCard, pendingForceDeal, pendingSlyDeal>>

\* getAIMoves settles: a list of any length up to MaxMoves (the list of a
\* failed request is the one move END_TURN).  What the moves are is chosen as
\* they are read.
AiReceive ==
  /\ aiLoop.pc = "awaiting"
  /\ \E n \in 0..MaxMoves : aiLoop' = [pc |-> "applying", left |-> n]
  /\ UNCHANGED <<gameState, pendingRentCard, pendingForceDeal, pendingSlyDeal,
                 aiProcessing, aiLoops>>

\* runAI 612-619: the next move names a card of the hand and is executed
AiPlay ==
  /\ aiLoop.pc = "applying"
  /\ aiLoop.left > 0
  /\ ~AiBreaks(gameState)
  /\ LogOpen
  /\ \E type \in MoveTypes, cardId \in INITIAL_DECK :
       /\ InActiveHand(gameState, cardId)
       /\ \E outcome \in executeMove(gameState, pendingRentCard, pendingForceDeal,
                                     pendingSlyDeal, type, cardId) :
            Apply(outcome)
  /\ aiLoop' = [aiLoop EXCEPT !.left = @ - 1]
  /\ UNCHANGED <<aiProcessing, aiLoops>>

\* runAI 612-614: the next move names no card, or a card that is not in the
\* hand, and is passed over
AiSkip ==
  /\ aiLoop.pc = "applying"
  /\ aiLoop.left > 0
  /\ ~AiBreaks(gameState)
  /\ aiLoop' = [aiLoop EXCEPT !.left = @ - 1]
  /\ UNCHANGED <<gameState, pendingRentCard, pendingForceDeal, pendingSlyDeal,
                 aiProcessing, aiLoops>>

\* runAI 606-610 and 620-628: the list has run out, the loop breaks (line 609,
\* or the move END_TURN), or reading the list throws; the finally block runs.
AiFinish ==
  /\ aiLoop.pc = "applying"
  /\ Apply(AiFinally(gameState, pendingRentCard, pendingForceDeal, pendingSlyDeal))
  /\ aiProcessing' = FALSE
  /\ aiLoop' = AiIdle
  /\ aiLoops' = aiLoops - 1

\* The END TURN button 1101-1103 in a game against the automated player:
\* enabled for the human player to move, once the effects have run.
HumanEndTurn ==
  /\ ~gameState.players[gameState.activePlayerIndex].isAI
  /\ ~aiProcessing
  /\ gameState.phase = "PLAY_PHASE"
  /\ gameState.pendingAction = NoPending
  /\ pendingRentCard = NoCard
  /\ pendingForceDeal = NoForceDeal
  /\ pendingSlyDeal = NoCard
  /\ EndTurn

\* The positions with an automated player.
AiPositions == {p \in Positions : \E i \in DOMAIN p.players : p.players[i].isAI}

InitAI ==
  /\ Init
  /\ gameState \in AiPositions

\* The automated player's turns: its loop, the timers (startTurn, the
\* automated answer to a pending action), and what the table lets the human
\* do meanwhile: answer a pending action, click a set or CANCEL ACTION while a
\* Rent card waits, end their own turn.
NextAI ==
  \/ AiStart
  \/ AiReceive
  \/ AiPlay
  \/ AiSkip
  \/ AiFinish
  \/ StartTurn
  \/ ResolvePendingAction
  \/ HandleRentCollection
  \/ CancelRent
  \/ HumanEndTurn

\* The request for moves settles (getAIMoves catches every failure), and the
\* loop goes on to its next move when its timer fires.
SpecAI ==
  /\ InitAI
  /\ [][NextAI]_vars
  /\ WF_vars(AiReceive)
  /\ WF_vars(AiPlay \/ AiSkip \/ AiFinish)

\* C15 (the automated player's turn ends): a decision loop that has started
\* finishes, whatever the list of moves; and when it finishes with no winner
\* and no pending action, endTurn is applied: the other player becomes active
\* and the phase is START_TURN.
AiTurnEnds ==
  /\ (aiLoop.pc # "idle") ~> (aiLoop.pc = "idle")
  /\ [][(/\ aiLoop.pc # "idle"
         /\ aiLoop'.pc = "idle"
         /\ gameState.winner = NoIndex
         /\ gameState.pendingAction = NoPending)
          => /\ gameState'.activePlayerIndex = 1 - gameState.activePlayerIndex
             /\ gameState'.phase = "START_TURN"
             /\ ~gameState'.players[gameState'.activePlayerIndex].isAI]_vars

\* C15 witness: the automated player has banked or deployed a card, its loop
\* has finished, and the human player is to start a turn.
AiTurnEndsWitness ==
  /\ aiLoop = AiIdle
  /\ ~aiProcessing
  /\ gameState.phase = "START_TURN"
  /\ ~gameState.players[gameState.activePlayerIndex].isAI
  /\ Len(gameState.logs) >= 2
  /\ gameState.logs[1].k = "turnchange"
  /\ gameState.logs[2].k \in {"banked", "deployed"}
  /\ gameState.players[gameState.logs[2].p].isAI

\* C16 (one decision loop at a time): at most one runAI is in progress, and
\* aiProcessingRef is set exactly while one is.
SingleAiLoop ==
  /\ aiLoops <= 1
  /\ aiProcessing <=> (aiLoops = 1)
  /\ (aiLoop.pc # "idle") <=> (aiLoops = 1)

\* C16 witness: while the loop is between two moves, an action it played has
\* been resolved, so that everything the effect tests but the guard holds
\* again.
SingleAiLoopWitness ==
  /\ aiLoops = 1
  /\ aiLoop.pc = "applying"
  /\ gameState.players[gameState.activePlayerIndex].isAI
  /\ gameState.phase = "PLAY_PHASE"
  /\ gameState.winner = NoIndex
  /\ gameState.pendingAction = NoPending
  /\ Head(gameState.logs).k \in {"stole", "slyinvalid", "forcedeal", "blocked"}

====
